---- MODULE Spec2Model ----
(***************************************************************************)
(* Model of the MetaMCP gateway core: the Live Session Registry, the       *)
(* Smart-Discovery middleware with the Ask-Agent orchestrator, the agent   *)
(* document budget and the namespace ownership rules.                      *)
(*                                                                         *)
(* Each component has its own variables, its own next-state relation and   *)
(* its own specification; the variables of the other components stay at    *)
(* their initial value under a component's specification.                  *)
(***************************************************************************)
EXTENDS Integers, Sequences, FiniteSets, TLC

(***************************************************************************)
(* JavaScript Map: a sequence of <<key, value>> pairs in insertion order.  *)
(***************************************************************************)
MapKeys(m) == { m[i][1] : i \in 1..Len(m) }

MapHas(m, k) == k \in MapKeys(m)

MapIndex(m, k) == CHOOSE i \in 1..Len(m) : m[i][1] = k

MapGet(m, k) == m[MapIndex(m, k)][2]

\* Map.set keeps the position of an existing key and appends a new one.
MapSet(m, k, v) ==
    IF MapHas(m, k)
    THEN [m EXCEPT ![MapIndex(m, k)] = <<k, v>>]
    ELSE Append(m, <<k, v>>)

MapDelete(m, k) ==
    IF MapHas(m, k)
    THEN LET j == MapIndex(m, k)
         IN  [i \in 1..(Len(m) - 1) |-> IF i < j THEN m[i] ELSE m[i + 1]]
    ELSE m

RECURSIVE SeqSum(_)
SeqSum(s) == IF s = <<>> THEN 0 ELSE Head(s) + SeqSum(Tail(s))

Max(a, b) == IF a >= b THEN a ELSE b

Min(a, b) == IF a <= b THEN a ELSE b

(***************************************************************************)
(* Live Session Registry (LiveConnectionsTracker).                         *)
(***************************************************************************)
SessionIds == {"s1", "s2", "s3"}

EndpointNames == {"e1", "e2"}

NamespaceUuids == {"n1", "n2"}

TransportTypes == {"SSE", "StreamableHTTP"}

VARIABLES
    connections,      \* Map sessionId -> ConnectionInfo (a function on the known ids)
    endpointCounts,   \* Map endpointName -> Map namespaceUuid -> count
    transportCounts,  \* transport -> count
    regLast           \* the last registry call: its name and what it found

regVars == <<connections, endpointCounts, transportCounts, regLast>>

NoInfo == [endpointName |-> "", namespaceUuid |-> "", transport |-> ""]

RegInit ==
    /\ connections = << >>
    /\ endpointCounts = <<>>
    /\ transportCounts = [t \in TransportTypes |-> 0]
    /\ regLast = [op |-> "init", known |-> FALSE, sessionId |-> "", info |-> NoInfo]

\* What a call leaves in regLast: its name, its arguments, and whether it found
\* the session id registered.
Called(op, known, sessionId, info) ==
    [op |-> op, known |-> known, sessionId |-> sessionId, info |-> info]

ConnectionInfo(endpointName, namespaceUuid, transport) ==
    [endpointName |-> endpointName, namespaceUuid |-> namespaceUuid,
     transport |-> transport]

addConnectionMutNoTransport(sessionId, endpointName, namespaceUuid, transport) ==
    IF sessionId \in DOMAIN connections
    THEN /\ regLast' = Called("add", TRUE, sessionId,
                              ConnectionInfo(endpointName, namespaceUuid, transport))
         /\ UNCHANGED <<connections, endpointCounts, transportCounts>>
    ELSE /\ connections' = [s \in DOMAIN connections \cup {sessionId} |->
                IF s = sessionId
                THEN ConnectionInfo(endpointName, namespaceUuid, transport)
                ELSE connections[s]]
         /\ LET namespaceMap == IF MapHas(endpointCounts, endpointName)
                                THEN MapGet(endpointCounts, endpointName)
                                ELSE <<>>
                currentCount == IF MapHas(namespaceMap, namespaceUuid)
                                THEN MapGet(namespaceMap, namespaceUuid)
                                ELSE 0
            IN  endpointCounts' = MapSet(endpointCounts, endpointName,
                    MapSet(namespaceMap, namespaceUuid, currentCount + 1))
         /\ regLast' = Called("add", FALSE, sessionId,
                              ConnectionInfo(endpointName, namespaceUuid, transport))
         /\ UNCHANGED transportCounts

addConnectionMutNoDuplicateCheck(sessionId, endpointName, namespaceUuid, transport) ==
    /\ connections' = [s \in DOMAIN connections \cup {sessionId} |->
           IF s = sessionId
           THEN ConnectionInfo(endpointName, namespaceUuid, transport)
           ELSE connections[s]]
    /\ LET namespaceMap == IF MapHas(endpointCounts, endpointName)
                           THEN MapGet(endpointCounts, endpointName)
                           ELSE <<>>
           currentCount == IF MapHas(namespaceMap, namespaceUuid)
                           THEN MapGet(namespaceMap, namespaceUuid)
                           ELSE 0
       IN  endpointCounts' = MapSet(endpointCounts, endpointName,
               MapSet(namespaceMap, namespaceUuid, currentCount + 1))
    /\ transportCounts' = [transportCounts EXCEPT ![transport] = @ + 1]
    /\ regLast' = Called("add", sessionId \in DOMAIN connections, sessionId,
                         ConnectionInfo(endpointName, namespaceUuid, transport))

addConnection(sessionId, endpointName, namespaceUuid, transport) ==
    IF sessionId \in DOMAIN connections
    THEN \* duplicate add: warn and return
         /\ regLast' = Called("add", TRUE, sessionId,
                              ConnectionInfo(endpointName, namespaceUuid, transport))
         /\ UNCHANGED <<connections, endpointCounts, transportCounts>>
    ELSE /\ connections' = [s \in DOMAIN connections \cup {sessionId} |->
                IF s = sessionId
                THEN ConnectionInfo(endpointName, namespaceUuid, transport)
                ELSE connections[s]]
         /\ LET namespaceMap == IF MapHas(endpointCounts, endpointName)
                                THEN MapGet(endpointCounts, endpointName)
                                ELSE <<>>
                currentCount == IF MapHas(namespaceMap, namespaceUuid)
                                THEN MapGet(namespaceMap, namespaceUuid)
                                ELSE 0
            IN  endpointCounts' = MapSet(endpointCounts, endpointName,
                    MapSet(namespaceMap, namespaceUuid, currentCount + 1))
         /\ transportCounts' = [transportCounts EXCEPT ![transport] = @ + 1]
         /\ regLast' = Called("add", FALSE, sessionId,
                              ConnectionInfo(endpointName, namespaceUuid, transport))

removeConnectionMutKeepsEntry(sessionId) ==
    IF sessionId \notin DOMAIN connections
    THEN /\ regLast' = Called("remove", FALSE, sessionId, NoInfo)
         /\ UNCHANGED <<connections, endpointCounts, transportCounts>>
    ELSE LET connection == connections[sessionId]
             endpointName == connection.endpointName
             namespaceUuid == connection.namespaceUuid
             transport == connection.transport
         IN  /\ UNCHANGED connections
             /\ IF MapHas(endpointCounts, endpointName)
                THEN LET namespaceMap == MapGet(endpointCounts, endpointName)
                         currentCount == IF MapHas(namespaceMap, namespaceUuid)
                                         THEN MapGet(namespaceMap, namespaceUuid)
                                         ELSE 0
                         newCount == Max(0, currentCount - 1)
                         newMap == IF newCount = 0
                                   THEN MapDelete(namespaceMap, namespaceUuid)
                                   ELSE MapSet(namespaceMap, namespaceUuid, newCount)
                     IN  endpointCounts' =
                            IF Len(newMap) = 0
                            THEN MapDelete(endpointCounts, endpointName)
                            ELSE MapSet(endpointCounts, endpointName, newMap)
                ELSE UNCHANGED endpointCounts
             /\ transportCounts' = [transportCounts EXCEPT ![transport] = Max(0, @ - 1)]
             /\ regLast' = Called("remove", TRUE, sessionId, connection)

removeConnectionMutNoCleanup(sessionId) ==
    IF sessionId \notin DOMAIN connections
    THEN /\ regLast' = Called("remove", FALSE, sessionId, NoInfo)
         /\ UNCHANGED <<connections, endpointCounts, transportCounts>>
    ELSE LET connection == connections[sessionId]
             endpointName == connection.endpointName
             namespaceUuid == connection.namespaceUuid
             transport == connection.transport
         IN  /\ connections' = [s \in DOMAIN connections \ {sessionId} |-> connections[s]]
             /\ IF MapHas(endpointCounts, endpointName)
                THEN LET namespaceMap == MapGet(endpointCounts, endpointName)
                         currentCount == IF MapHas(namespaceMap, namespaceUuid)
                                         THEN MapGet(namespaceMap, namespaceUuid)
                                         ELSE 0
                         newCount == Max(0, currentCount - 1)
                         newMap == IF newCount = 0
                                   THEN MapDelete(namespaceMap, namespaceUuid)
                                   ELSE MapSet(namespaceMap, namespaceUuid, newCount)
                     IN  endpointCounts' =
                            MapSet(endpointCounts, endpointName, newMap)
                ELSE UNCHANGED endpointCounts
             /\ transportCounts' = [transportCounts EXCEPT ![transport] = Max(0, @ - 1)]
             /\ regLast' = Called("remove", TRUE, sessionId, connection)

removeConnection(sessionId) ==
    IF sessionId \notin DOMAIN connections
    THEN \* unknown session: warn and return
         /\ regLast' = Called("remove", FALSE, sessionId, NoInfo)
         /\ UNCHANGED <<connections, endpointCounts, transportCounts>>
    ELSE LET connection == connections[sessionId]
             endpointName == connection.endpointName
             namespaceUuid == connection.namespaceUuid
             transport == connection.transport
         IN  /\ connections' = [s \in DOMAIN connections \ {sessionId} |-> connections[s]]
             /\ IF MapHas(endpointCounts, endpointName)
                THEN LET namespaceMap == MapGet(endpointCounts, endpointName)
                         currentCount == IF MapHas(namespaceMap, namespaceUuid)
                                         THEN MapGet(namespaceMap, namespaceUuid)
                                         ELSE 0
                         newCount == Max(0, currentCount - 1)
                         newMap == IF newCount = 0
                                   THEN MapDelete(namespaceMap, namespaceUuid)
                                   ELSE MapSet(namespaceMap, namespaceUuid, newCount)
                     IN  endpointCounts' =
                            IF Len(newMap) = 0
                            THEN MapDelete(endpointCounts, endpointName)
                            ELSE MapSet(endpointCounts, endpointName, newMap)
                ELSE UNCHANGED endpointCounts
             /\ transportCounts' = [transportCounts EXCEPT ![transport] = Max(0, @ - 1)]
             /\ regLast' = Called("remove", TRUE, sessionId, connection)

clear ==
    /\ connections' = << >>
    /\ endpointCounts' = <<>>
    /\ transportCounts' = [t \in TransportTypes |-> 0]
    /\ regLast' = Called("clear", FALSE, "", NoInfo)

\* The connections that getStats counts for one endpoint, namespace and transport.
ConnCount(endpointName, namespaceUuid, transport) ==
    Cardinality({ s \in DOMAIN connections :
        /\ connections[s].endpointName = endpointName
        /\ connections[s].namespaceUuid = namespaceUuid
        /\ connections[s].transport = transport })

\* The byEndpoint entries of one endpoint, in the order of its namespace map.
EndpointEntries(endpointName, namespaceMap) ==
    [i \in 1..Len(namespaceMap) |->
        [endpointName |-> endpointName,
         namespaceUuid |-> namespaceMap[i][1],
         count |-> namespaceMap[i][2],
         byTransport |->
            [SSE |-> ConnCount(endpointName, namespaceMap[i][1], "SSE"),
             StreamableHTTP |->
                ConnCount(endpointName, namespaceMap[i][1], "StreamableHTTP")]]]

RECURSIVE AllEntries(_)
AllEntries(m) ==
    IF m = <<>> THEN <<>>
    ELSE EndpointEntries(Head(m)[1], Head(m)[2]) \o AllEntries(Tail(m))

\* Array.prototype.sort with (a, b) => b.count - a.count: stable, count descending.
RECURSIVE InsertByCount(_, _)
InsertByCount(sorted, e) ==
    IF sorted = <<>> THEN <<e>>
    ELSE IF Head(sorted).count >= e.count
         THEN <<Head(sorted)>> \o InsertByCount(Tail(sorted), e)
         ELSE <<e>> \o sorted

RECURSIVE SortByCountDesc(_)
SortByCountDesc(s) ==
    IF s = <<>> THEN <<>>
    ELSE InsertByCount(SortByCountDesc(SubSeq(s, 1, Len(s) - 1)), s[Len(s)])

getStats ==
    [total |-> Cardinality(DOMAIN connections),
     byTransport |-> [SSE |-> transportCounts["SSE"],
                      StreamableHTTP |-> transportCounts["StreamableHTTP"]],
     byEndpoint |-> SortByCountDesc(AllEntries(endpointCounts))]

RegNext ==
    \/ \E s \in SessionIds, e \in EndpointNames, n \in NamespaceUuids,
          t \in TransportTypes : addConnection(s, e, n, t)
    \/ \E s \in SessionIds : removeConnection(s)
    \/ clear

(***************************************************************************)
(* Smart Discovery: the tool list of the next handler, the namespace row,  *)
(* the status cache, the per-session exposure table and the Discovery      *)
(* Index, as seen by the requests of one namespace endpoint.               *)
(***************************************************************************)
\* context.namespaceUuid and context.sessionId of the modelled endpoint
CtxNamespace == "n1"

CtxSession == "s1"

\* A tool name is the sequence of its segments between "__" separators:
\* <<"alpha", "read">> is "alpha__read".
AskName == <<"metamcp", "ask">>

FindName == <<"metamcp", "find">>

SyntheticNames == {AskName, FindName}

AlphaRead == <<"alpha", "read">>

AlphaWrite == <<"alpha", "write">>

GhostTool == <<"ghost", "tool">>

MkTool(n, d) == [name |-> n, title |-> "", description |-> d, inputSchema |-> "schema1"]

\* The tool lists the next handler (overrides + aggregator) may answer with.
UpstreamListA == <<MkTool(AlphaRead, "d1"), MkTool(AlphaWrite, "d1")>>

UpstreamListB == <<MkTool(AlphaWrite, "d1")>>

UpstreamLists == {UpstreamListA, UpstreamListB}

\* The values of namespaces.smart_discovery_pinned_tools the control plane stores.
PinnedChoices == { {}, {AlphaRead, GhostTool} }

Queries == {"read a file", "nothing"}

\* args.limit of metamcp__find: absent (<<>>) or a number
LimitArgs == { <<>>, <<-1>>, <<0>>, <<1>>, <<21>> }

\* args.query of metamcp__find: absent (<<>>) or a string
QueryArgs == { <<>> } \cup { <<q>> : q \in Queries }

Requests == {"r1", "r2"}

SeqNames(s) == { s[i].name : i \in 1..Len(s) }

SeqRange(s) == { s[i] : i \in 1..Len(s) }

\* Array.prototype.filter
RECURSIVE SeqFilterIn(_, _)
SeqFilterIn(s, names) ==
    IF s = <<>> THEN <<>>
    ELSE IF Head(s).name \in names
         THEN <<Head(s)>> \o SeqFilterIn(Tail(s), names)
         ELSE SeqFilterIn(Tail(s), names)

\* Array.prototype.slice(0, end) for an integer end
JsSliceFromZero(s, end) ==
    LET e == IF end < 0 THEN Max(Len(s) + end, 0) ELSE Min(end, Len(s))
    IN  SubSeq(s, 1, e)

VARIABLES
    toolList,      \* what the next list_tools handler answers now
    nsEnabled,     \* namespaces.smart_discovery_enabled
    nsPinned,      \* namespaces.smart_discovery_pinned_tools
    statusCache,   \* SmartDiscoveryStatusCache entry of the namespace: <<>> or <<enabled>>
    sessions,      \* DiscoveredToolsSessionManager.sessions: sessionId -> ns -> Set
    otherSessions, \* number of further session ids held in sessions
    cleanupDue,    \* now - lastCleanup > CLEANUP_INTERVAL
    cacheCur,      \* DiscoveryService.cache.get(ns): 0 or the id of a Map object
    cacheObj,      \* the Map objects ever created: id -> Map
    pendingIndexing, \* DiscoveryService.pendingIndexing.get(ns): 0 or the operation
    indexRest,     \* ns -> tools of the pending operation that wait for a later batch
    inflight,      \* embeddings awaited by indexTool: records [tool, ref, ns, op]
    req,           \* the downstream requests being served
    upd,           \* the namespace update in progress in the control plane
    cacheClears,   \* number of clearSmartDiscoveryCache calls so far
    lastFind       \* <<names>> of the session's latest find that ran a search

sdVars == <<toolList, nsEnabled, nsPinned, statusCache, sessions, otherSessions,
            cleanupDue, cacheCur, cacheObj, pendingIndexing, indexRest, inflight, req,
            upd, cacheClears, lastFind>>

IdleReq ==
    [kind |-> "idle", pc |-> "idle", query |-> <<>>, limit |-> <<>>,
     resp |-> <<>>, dbEnabled |-> FALSE, cacheRef |-> 0,
     discovered |-> {}, pinnedRead |-> {}, enabled |-> FALSE,
     expect |-> <<>>, concurrent |-> FALSE, searchLimit |-> <<>>,
     call |-> <<>>, forwarded |-> <<>>, handlerResult |-> <<>>, returned |-> <<>>,
     out |-> [kind |-> "none", names |-> <<>>, isError |-> FALSE]]

SdInit ==
    /\ toolList = UpstreamListA
    /\ nsEnabled = TRUE
    /\ nsPinned = {}
    /\ statusCache = <<>>
    /\ sessions = << >>
    /\ otherSessions = 0
    /\ cleanupDue = FALSE
    /\ cacheCur = [n \in NamespaceUuids |-> 0]
    /\ cacheObj = <<>>
    /\ pendingIndexing = [n \in NamespaceUuids |-> 0]
    /\ indexRest = [n \in NamespaceUuids |-> <<>>]
    /\ inflight = {}
    /\ req = [r \in Requests |-> IdleReq]
    /\ upd = [pc |-> "idle", enabledGiven |-> FALSE]
    /\ cacheClears = 0
    /\ lastFind = <<>>

(***************************************************************************)
(* DiscoveredToolsSessionManager                                           *)
(***************************************************************************)
SessionHighWater == 1000

SessionsSize == Cardinality(DOMAIN sessions) + otherSessions

\* cleanupIfNeeded drops the whole table when the interval has passed and the
\* table holds more than SessionHighWater sessions.
CleanupWipes == cleanupDue /\ SessionsSize > SessionHighWater

cleanupIfNeeded ==
    [sessions |-> IF CleanupWipes THEN << >> ELSE sessions,
     otherSessions |-> IF CleanupWipes THEN 0 ELSE otherSessions]

getDiscoveredToolNames(sessionId, namespaceUuid) ==
    IF sessionId \in DOMAIN sessions /\ namespaceUuid \in DOMAIN sessions[sessionId]
    THEN sessions[sessionId][namespaceUuid]
    ELSE {}

setToolsMutUnion(sessionId, namespaceUuid, toolNames) ==
    LET base == cleanupIfNeeded.sessions
        inner == IF sessionId \in DOMAIN base THEN base[sessionId] ELSE << >>
        old == IF namespaceUuid \in DOMAIN inner THEN inner[namespaceUuid] ELSE {}
        newInner == [n \in DOMAIN inner \cup {namespaceUuid} |->
                        IF n = namespaceUuid THEN old \cup SeqRange(toolNames) ELSE inner[n]]
    IN  /\ sessions' = [s \in DOMAIN base \cup {sessionId} |->
                            IF s = sessionId THEN newInner ELSE base[s]]
        /\ otherSessions' = cleanupIfNeeded.otherSessions
        /\ cleanupDue' = FALSE

\* setTools: cleanupIfNeeded(), then replace the set of (sessionId, namespaceUuid).
setTools(sessionId, namespaceUuid, toolNames) ==
    LET base == cleanupIfNeeded.sessions
        inner == IF sessionId \in DOMAIN base THEN base[sessionId] ELSE << >>
        newInner == [n \in DOMAIN inner \cup {namespaceUuid} |->
                        IF n = namespaceUuid THEN SeqRange(toolNames) ELSE inner[n]]
    IN  /\ sessions' = [s \in DOMAIN base \cup {sessionId} |->
                            IF s = sessionId THEN newInner ELSE base[s]]
        /\ otherSessions' = cleanupIfNeeded.otherSessions
        /\ cleanupDue' = FALSE

(***************************************************************************)
(* DiscoveryService                                                        *)
(***************************************************************************)
BatchSize == 5

SearchThreshold == 30

getToolHashMutWithSchema(tool) ==
    <<tool.name, tool.title, tool.description, tool.inputSchema>>

\* simpleHash of `${name}:${title}:${description}`
getToolHash(tool) == <<tool.name, tool.title, tool.description>>

\* parseToolName: split at the first separator; null without one
parseToolName(fullName) ==
    IF Len(fullName) < 2 THEN <<>>
    ELSE <<[serverName |-> Head(fullName), originalName |-> Tail(fullName)]>>

\* The text indexTool embeds. The embedding provider is a function of the text,
\* so an index entry keeps the text in the place of the vector.
TextToEmbed(tool) ==
    LET parsed == parseToolName(tool.name)
    IN  [server |-> IF parsed = <<>> THEN "unknown" ELSE parsed[1].serverName,
         tool |-> IF parsed = <<>> THEN tool.name ELSE parsed[1].originalName,
         title |-> tool.title,
         description |-> IF tool.description = "" THEN "No description"
                         ELSE tool.description]

IndexEntry(tool) ==
    LET parsed == parseToolName(tool.name)
    IN  [toolName |-> IF parsed = <<>> THEN tool.name ELSE parsed[1].originalName,
         fullToolName |-> tool.name,
         serverName |-> IF parsed = <<>> THEN "unknown" ELSE parsed[1].serverName,
         description |-> tool.description,
         inputSchema |-> tool.inputSchema,
         embedding |-> TextToEmbed(tool),
         hash |-> getToolHash(tool)]

\* cosineSimilarity of the query's embedding and an entry's, in hundredths.
cosineSimilarity(query, embedding) ==
    IF query = "read a file"
    THEN CASE embedding.tool = <<"read">> -> 90
           [] embedding.tool = <<"write">> -> 60
           [] OTHER -> 20
    ELSE 10

NeedsEmbedding(map, tool) ==
    \/ ~MapHas(map, tool.name)
    \/ MapGet(map, tool.name).hash # getToolHash(tool)

\* The tools of a batch whose embedding indexTool requests.
BatchNeeds(map, batch) == { t \in SeqRange(batch) : NeedsEmbedding(map, t) }

\* The indexing loop from the start of a batch to its first suspension: batches
\* that need no embedding are passed at once.
RECURSIVE RunBatches(_, _)
RunBatches(map, tools) ==
    IF tools = <<>> THEN [needs |-> {}, rest |-> <<>>]
    ELSE LET batch == SubSeq(tools, 1, Min(BatchSize, Len(tools)))
             rest == SubSeq(tools, Min(BatchSize, Len(tools)) + 1, Len(tools))
         IN  IF BatchNeeds(map, batch) = {}
             THEN RunBatches(map, rest)
             ELSE [needs |-> BatchNeeds(map, batch), rest |-> rest]

\* The identity of a new indexing operation (its promise): the smallest number
\* no pending operation and no awaited embedding carries.
NewOp ==
    LET used == { pendingIndexing[n] : n \in NamespaceUuids } \cup { t.op : t \in inflight }
    IN  CHOOSE k \in 1..(Cardinality(used) + 1) : k \notin used

indexToolsMutNoPendingCheck(namespaceUuid, tools) ==
    LET cur == IF cacheCur[namespaceUuid] = 0 THEN Len(cacheObj) + 1
               ELSE cacheCur[namespaceUuid]
        objs == IF cacheCur[namespaceUuid] = 0 THEN Append(cacheObj, <<>>) ELSE cacheObj
        run == RunBatches(objs[cur], tools)
    IN  /\ cacheCur' = [cacheCur EXCEPT ![namespaceUuid] = cur]
        /\ cacheObj' = objs
        /\ inflight' = inflight \cup
                 { [tool |-> t, ref |-> cur, ns |-> namespaceUuid, op |-> NewOp] :
                     t \in run.needs }
        /\ indexRest' = [indexRest EXCEPT ![namespaceUuid] = run.rest]
        /\ pendingIndexing' = [pendingIndexing EXCEPT ![namespaceUuid] =
                                  IF run.needs # {} THEN NewOp ELSE 0]

indexToolsMutPrunes(namespaceUuid, tools) ==
    LET cur == IF cacheCur[namespaceUuid] = 0 THEN Len(cacheObj) + 1
               ELSE cacheCur[namespaceUuid]
        objs == IF cacheCur[namespaceUuid] = 0 THEN Append(cacheObj, <<>>)
                ELSE [cacheObj EXCEPT ![cur] =
                         SelectSeq(@, LAMBDA e : e[1] \in SeqNames(tools))]
        run == RunBatches(objs[cur], tools)
    IN  /\ cacheCur' = [cacheCur EXCEPT ![namespaceUuid] = cur]
        /\ cacheObj' = objs
        /\ IF pendingIndexing[namespaceUuid] # 0
           THEN UNCHANGED <<pendingIndexing, indexRest, inflight>>
           ELSE /\ inflight' = inflight \cup
                        { [tool |-> t, ref |-> cur, ns |-> namespaceUuid, op |-> NewOp] :
                            t \in run.needs }
                /\ indexRest' = [indexRest EXCEPT ![namespaceUuid] = run.rest]
                /\ pendingIndexing' = [pendingIndexing EXCEPT ![namespaceUuid] =
                                          IF run.needs # {} THEN NewOp ELSE 0]

indexToolsMutJoinAddsTools(namespaceUuid, tools) ==
    LET cur == IF cacheCur[namespaceUuid] = 0 THEN Len(cacheObj) + 1
               ELSE cacheCur[namespaceUuid]
        objs == IF cacheCur[namespaceUuid] = 0 THEN Append(cacheObj, <<>>) ELSE cacheObj
        run == RunBatches(objs[cur], tools)
        op == IF pendingIndexing[namespaceUuid] # 0 THEN pendingIndexing[namespaceUuid]
              ELSE NewOp
    IN  /\ cacheCur' = [cacheCur EXCEPT ![namespaceUuid] = cur]
        /\ cacheObj' = objs
        /\ inflight' = inflight \cup
                { [tool |-> t, ref |-> cur, ns |-> namespaceUuid, op |-> op] :
                    t \in run.needs }
        /\ IF pendingIndexing[namespaceUuid] # 0
           THEN UNCHANGED <<pendingIndexing, indexRest>>
           ELSE /\ indexRest' = [indexRest EXCEPT ![namespaceUuid] = run.rest]
                /\ pendingIndexing' = [pendingIndexing EXCEPT ![namespaceUuid] =
                                          IF run.needs # {} THEN NewOp ELSE 0]

\* indexTools up to its first suspension.
indexTools(namespaceUuid, tools) ==
    LET cur == IF cacheCur[namespaceUuid] = 0 THEN Len(cacheObj) + 1
               ELSE cacheCur[namespaceUuid]
        objs == IF cacheCur[namespaceUuid] = 0 THEN Append(cacheObj, <<>>) ELSE cacheObj
        run == RunBatches(objs[cur], tools)
    IN  /\ cacheCur' = [cacheCur EXCEPT ![namespaceUuid] = cur]
        /\ cacheObj' = objs
        /\ IF pendingIndexing[namespaceUuid] # 0
           THEN UNCHANGED <<pendingIndexing, indexRest, inflight>>
           ELSE /\ inflight' = inflight \cup
                        { [tool |-> t, ref |-> cur, ns |-> namespaceUuid, op |-> NewOp] :
                            t \in run.needs }
                /\ indexRest' = [indexRest EXCEPT ![namespaceUuid] = run.rest]
                /\ pendingIndexing' = [pendingIndexing EXCEPT ![namespaceUuid] =
                                          IF run.needs # {} THEN NewOp ELSE 0]

\* Array.prototype.sort with (a, b) => b.score - a.score: stable, score descending.
RECURSIVE InsertByScore(_, _)
InsertByScore(sorted, e) ==
    IF sorted = <<>> THEN <<e>>
    ELSE IF Head(sorted).score >= e.score
         THEN <<Head(sorted)>> \o InsertByScore(Tail(sorted), e)
         ELSE <<e>> \o sorted

RECURSIVE SortByScoreDesc(_)
SortByScoreDesc(s) ==
    IF s = <<>> THEN <<>>
    ELSE InsertByScore(SortByScoreDesc(SubSeq(s, 1, Len(s) - 1)), s[Len(s)])

RECURSIVE ScoredAboveMutStrict(_, _, _)
ScoredAboveMutStrict(map, query, threshold) ==
    IF map = <<>> THEN <<>>
    ELSE LET entry == Head(map)[2]
             score == cosineSimilarity(query, entry.embedding)
             rest == ScoredAboveMutStrict(Tail(map), query, threshold)
         IN  IF score > threshold
             THEN <<[name |-> entry.fullToolName, score |-> score]>> \o rest
             ELSE rest

RECURSIVE ScoredAbove(_, _, _)
ScoredAbove(map, query, threshold) ==
    IF map = <<>> THEN <<>>
    ELSE LET entry == Head(map)[2]
             score == cosineSimilarity(query, entry.embedding)
             rest == ScoredAbove(Tail(map), query, threshold)
         IN  IF score >= threshold
             THEN <<[name |-> entry.fullToolName, score |-> score]>> \o rest
             ELSE rest

\* search after the query embedding has arrived, on the Map object it captured.
searchWith(map, query, limit, threshold) ==
    JsSliceFromZero(SortByScoreDesc(ScoredAbove(map, query, threshold)), limit)

\* search with the default threshold.
searchResults(map, query, limit) == searchWith(map, query, limit, SearchThreshold)

(***************************************************************************)
(* The Smart-Discovery middleware: list_tools and call_tool(metamcp__find) *)
(***************************************************************************)
MaxCacheClears == 1

DefaultFindLimit == 5

MaxFindLimit == 20

indexVars == <<cacheCur, cacheObj, pendingIndexing, indexRest, inflight>>

sessionVars == <<sessions, otherSessions, cleanupDue>>

sdNamespaceVars == <<toolList, nsEnabled, nsPinned>>

Done(r, out) == [req[r] EXCEPT !.pc = "done", !.out = out]

ErrorOut(kind) == [kind |-> kind, names |-> <<>>, isError |-> TRUE]

FindInFlight == \E r \in Requests : req[r].kind = "find" /\ req[r].pc # "done"

\* Bookkeeping at the arrival of a find: a list_tools it overlaps is not "the
\* next list_tools after the find", and finds in flight together are concurrent.
Overlapped(reqs) ==
    [x \in Requests |->
        IF reqs[x].kind = "list" /\ reqs[x].pc # "done"
        THEN [reqs[x] EXCEPT !.expect = <<>>]
        ELSE IF reqs[x].kind = "find" /\ reqs[x].pc # "done"
        THEN [reqs[x] EXCEPT !.concurrent =
                @ \/ \E y \in Requests \ {x} :
                        reqs[y].kind = "find" /\ reqs[y].pc # "done"]
        ELSE reqs[x]]

\* finalTools: ask and find, then the pinned tools, then the discovered tools,
\* each pushed unless its name is already in allToolNames.
RECURSIVE PushUnique(_, _)
PushUnique(finalTools, tools) ==
    IF tools = <<>> THEN finalTools
    ELSE IF Head(tools).name \in SeqNames(finalTools)
         THEN PushUnique(finalTools, Tail(tools))
         ELSE PushUnique(Append(finalTools, Head(tools)), Tail(tools))

SyntheticTools == <<MkTool(AskName, "ask"), MkTool(FindName, "find")>>

FinalToolsMutNoDedupe(resp, pinnedToolNames, discoveredToolNames) ==
    SyntheticTools \o SeqFilterIn(resp, pinnedToolNames)
                   \o SeqFilterIn(resp, discoveredToolNames)

FinalToolsMutPinnedUnfiltered(resp, pinnedToolNames, discoveredToolNames) ==
    PushUnique(PushUnique(SyntheticTools,
                          SeqFilterIn(<<MkTool(AlphaRead, "d1"), MkTool(AlphaWrite, "d1"),
                                        MkTool(GhostTool, "d1")>>, pinnedToolNames)),
               SeqFilterIn(resp, discoveredToolNames))

FinalTools(resp, pinnedToolNames, discoveredToolNames) ==
    PushUnique(PushUnique(SyntheticTools, SeqFilterIn(resp, pinnedToolNames)),
               SeqFilterIn(resp, discoveredToolNames))

ToolNames(tools) == [i \in 1..Len(tools) |-> tools[i].name]

\* list_tools arrives: the middleware awaits the next handler.
ListBegin(r) ==
    /\ req[r].kind = "idle"
    /\ req' = [req EXCEPT ![r] = [IdleReq EXCEPT !.kind = "list", !.pc = "handler",
                   !.expect = IF FindInFlight THEN <<>> ELSE lastFind]]
    /\ UNCHANGED <<sdNamespaceVars, statusCache, sessionVars, indexVars, upd, cacheClears, lastFind>>

\* list_tools once the status is known: the disabled answer, or the launch of
\* indexTools and the read of the session's discovered names.
ListBody(r, resp, enabled) ==
    IF ~enabled
    THEN /\ req' = [req EXCEPT ![r] = [@ EXCEPT !.pc = "done", !.resp = resp,
                        !.enabled = FALSE,
                        !.out = [kind |-> "all", names |-> ToolNames(resp),
                                 isError |-> FALSE]]]
         /\ UNCHANGED indexVars
    ELSE /\ IF Len(resp) > 0 THEN indexTools(CtxNamespace, resp) ELSE UNCHANGED indexVars
         /\ req' = [req EXCEPT ![r] = [@ EXCEPT !.pc = "pinned_db", !.resp = resp,
                        !.enabled = TRUE,
                        !.discovered = getDiscoveredToolNames(CtxSession, CtxNamespace)]]

\* The next handler answers; getSmartDiscoveryStatus hits the cache or asks the store.
ListGotTools(r) ==
    /\ req[r].kind = "list" /\ req[r].pc = "handler"
    /\ IF statusCache # <<>>
       THEN ListBody(r, toolList, statusCache[1])
       ELSE /\ req' = [req EXCEPT ![r] = [@ EXCEPT !.pc = "status_db", !.resp = toolList]]
            /\ UNCHANGED indexVars
    /\ UNCHANGED <<sdNamespaceVars, statusCache, sessionVars, upd, cacheClears, lastFind>>

\* The store executes the status query of getSmartDiscoveryStatus.
StatusDbRead(r) ==
    /\ req[r].pc = "status_db"
    /\ req' = [req EXCEPT ![r] = [@ EXCEPT !.pc = "status_got", !.dbEnabled = nsEnabled]]
    /\ UNCHANGED <<sdNamespaceVars, statusCache, sessionVars, indexVars, upd, cacheClears, lastFind>>

\* getSmartDiscoveryStatus resumes: the status is cached and list_tools goes on.
ListStatusGot(r) ==
    /\ req[r].kind = "list" /\ req[r].pc = "status_got"
    /\ statusCache' = <<req[r].dbEnabled>>
    /\ ListBody(r, req[r].resp, req[r].dbEnabled)
    /\ UNCHANGED <<sdNamespaceVars, sessionVars, upd, cacheClears, lastFind>>

\* getPinnedTools answers and the final list is built.
ListFinish(r) ==
    /\ req[r].kind = "list" /\ req[r].pc = "pinned_db"
    /\ req' = [req EXCEPT ![r] = [@ EXCEPT !.pc = "done", !.pinnedRead = nsPinned,
                   !.out = [kind |-> "exposed",
                            names |-> ToolNames(FinalTools(req[r].resp, nsPinned,
                                                           req[r].discovered)),
                            isError |-> FALSE]]]
    /\ UNCHANGED <<sdNamespaceVars, statusCache, sessionVars, indexVars, upd, cacheClears, lastFind>>

FindLimit(limitArg) ==
    Min(IF limitArg = <<>> THEN DefaultFindLimit ELSE limitArg[1], MaxFindLimit)

\* metamcp__find once the status is known, up to the await of the query embedding.
FindBody(r, query, limitArg, enabled) ==
    LET me == [req[r] EXCEPT !.kind = "find", !.query = query, !.limit = limitArg,
                             !.enabled = enabled]
    IN  IF ~enabled
        THEN /\ req' = Overlapped([req EXCEPT ![r] = [me EXCEPT !.pc = "done",
                            !.out = ErrorOut("disabled")]])
             /\ UNCHANGED lastFind
        ELSE IF query = <<>>
        THEN /\ req' = Overlapped([req EXCEPT ![r] = [me EXCEPT !.pc = "done",
                            !.out = ErrorOut("missing_query")]])
             /\ UNCHANGED lastFind
        ELSE IF cacheCur[CtxNamespace] = 0 \/ Len(cacheObj[cacheCur[CtxNamespace]]) = 0
        THEN /\ req' = Overlapped([req EXCEPT ![r] = [me EXCEPT !.pc = "done",
                            !.searchLimit = <<FindLimit(limitArg)>>,
                            !.out = [kind |-> "no_tools", names |-> <<>>,
                                     isError |-> FALSE]]])
             /\ lastFind' = << {} >>
        ELSE /\ req' = Overlapped([req EXCEPT ![r] = [me EXCEPT !.pc = "embedding",
                            !.searchLimit = <<FindLimit(limitArg)>>,
                            !.cacheRef = cacheCur[CtxNamespace]]])
             /\ UNCHANGED lastFind

\* call_tool(metamcp__find) arrives.
FindBegin(r, query, limitArg) ==
    /\ req[r].kind = "idle"
    /\ IF statusCache # <<>>
       THEN FindBody(r, query, limitArg, statusCache[1])
       ELSE /\ req' = Overlapped([req EXCEPT ![r] = [IdleReq EXCEPT !.kind = "find",
                           !.pc = "status_db", !.query = query, !.limit = limitArg]])
            /\ UNCHANGED lastFind
    /\ UNCHANGED <<sdNamespaceVars, statusCache, sessionVars, indexVars, upd, cacheClears>>

FindStatusGot(r) ==
    /\ req[r].kind = "find" /\ req[r].pc = "status_got"
    /\ statusCache' = <<req[r].dbEnabled>>
    /\ FindBody(r, req[r].query, req[r].limit, req[r].dbEnabled)
    /\ UNCHANGED <<sdNamespaceVars, sessionVars, indexVars, upd, cacheClears>>

FindEmbeddedMutSetsEmpty(r, ok) ==
    /\ req[r].kind = "find" /\ req[r].pc = "embedding"
    /\ LET results == searchResults(cacheObj[req[r].cacheRef], req[r].query[1],
                                    FindLimit(req[r].limit))
           foundToolNames == [i \in 1..Len(results) |-> results[i].name]
       IN  IF ~ok
           THEN /\ req' = [req EXCEPT ![r] = Done(r, ErrorOut("search_failed"))]
                /\ UNCHANGED <<sessionVars, lastFind>>
           ELSE /\ setTools(CtxSession, CtxNamespace, foundToolNames)
                /\ req' = [req EXCEPT ![r] = Done(r,
                               [kind |-> IF Len(results) = 0 THEN "no_tools" ELSE "found",
                                names |-> foundToolNames, isError |-> FALSE])]
                /\ lastFind' = << SeqRange(foundToolNames) >>
    /\ UNCHANGED <<sdNamespaceVars, statusCache, indexVars, upd, cacheClears>>

\* The query embedding arrives (or fails): the results are computed on the Map
\* object captured before the await and replace the session's set when not empty.
FindEmbedded(r, ok) ==
    /\ req[r].kind = "find" /\ req[r].pc = "embedding"
    /\ LET results == searchResults(cacheObj[req[r].cacheRef], req[r].query[1],
                                    FindLimit(req[r].limit))
           foundToolNames == [i \in 1..Len(results) |-> results[i].name]
       IN  IF ~ok
           THEN /\ req' = [req EXCEPT ![r] = Done(r, ErrorOut("search_failed"))]
                /\ UNCHANGED <<sessionVars, lastFind>>
           ELSE IF Len(results) = 0
           THEN /\ req' = [req EXCEPT ![r] = Done(r, [kind |-> "no_tools",
                               names |-> <<>>, isError |-> FALSE])]
                /\ lastFind' = << {} >>
                /\ UNCHANGED sessionVars
           ELSE /\ setTools(CtxSession, CtxNamespace, foundToolNames)
                /\ req' = [req EXCEPT ![r] = Done(r, [kind |-> "found",
                               names |-> foundToolNames, isError |-> FALSE])]
                /\ lastFind' = << SeqRange(foundToolNames) >>
    /\ UNCHANGED <<sdNamespaceVars, statusCache, indexVars, upd, cacheClears>>

\* The names, arguments and results of the calls that are passed through.
PassThroughNames == {AlphaRead, GhostTool}

CallArguments == {"args1"}

HandlerResults == {"result1", "result2"}

CallBeginMutGated(r, name, arguments) ==
    /\ req[r].kind = "idle"
    /\ name \notin SyntheticNames
    /\ IF statusCache = <<TRUE>> /\ name \notin getDiscoveredToolNames(CtxSession, CtxNamespace)
       THEN req' = [req EXCEPT ![r] = [IdleReq EXCEPT !.kind = "call", !.pc = "done",
                       !.call = <<[name |-> name, arguments |-> arguments]>>,
                       !.out = ErrorOut("not_exposed")]]
       ELSE req' = [req EXCEPT ![r] = [IdleReq EXCEPT !.kind = "call", !.pc = "handler",
                       !.call = <<[name |-> name, arguments |-> arguments]>>,
                       !.forwarded = <<[name |-> name, arguments |-> arguments]>>]]
    /\ UNCHANGED <<sdNamespaceVars, statusCache, sessionVars, indexVars, upd, cacheClears, lastFind>>

\* call_tool with a name other than the synthetic ones: handed to the next
\* handler before anything else is looked at.
CallBegin(r, name, arguments) ==
    /\ req[r].kind = "idle"
    /\ name \notin SyntheticNames
    /\ req' = [req EXCEPT ![r] = [IdleReq EXCEPT !.kind = "call", !.pc = "handler",
                   !.call = <<[name |-> name, arguments |-> arguments]>>,
                   !.forwarded = <<[name |-> name, arguments |-> arguments]>>]]
    /\ UNCHANGED <<sdNamespaceVars, statusCache, sessionVars, indexVars, upd, cacheClears, lastFind>>

\* The next handler answers and its result is the middleware's result.
CallReturned(r, result) ==
    /\ req[r].kind = "call" /\ req[r].pc = "handler"
    /\ req' = [req EXCEPT ![r] = [@ EXCEPT !.pc = "done",
                   !.handlerResult = <<result>>, !.returned = <<result>>,
                   !.out = [kind |-> "forwarded", names |-> <<>>, isError |-> FALSE]]]
    /\ UNCHANGED <<sdNamespaceVars, statusCache, sessionVars, indexVars, upd, cacheClears, lastFind>>

\* The response is sent and the request is over.
Respond(r) ==
    /\ req[r].pc = "done"
    /\ req' = [req EXCEPT ![r] = IdleReq]
    /\ UNCHANGED <<sdNamespaceVars, statusCache, sessionVars, indexVars, upd, cacheClears, lastFind>>

(***************************************************************************)
(* Background indexing                                                     *)
(***************************************************************************)
EmbedDoneMutKeepsPending(task, ok) ==
    /\ task \in inflight
    /\ LET objs == IF ok
                   THEN [cacheObj EXCEPT ![task.ref] =
                            MapSet(@, task.tool.name, IndexEntry(task.tool))]
                   ELSE cacheObj
           left == { x \in inflight \ {task} : x.op = task.op }
           others == (inflight \ {task}) \ left
           cur == cacheCur[task.ns]
       IN  /\ cacheObj' = objs
           /\ IF left # {}
              THEN /\ inflight' = inflight \ {task}
                   /\ UNCHANGED <<pendingIndexing, indexRest>>
              ELSE IF cur = 0
              THEN /\ inflight' = others
                   /\ indexRest' = [indexRest EXCEPT ![task.ns] = <<>>]
                   /\ UNCHANGED pendingIndexing
              ELSE LET run == RunBatches(objs[cur], indexRest[task.ns])
                   IN  /\ inflight' = others \cup
                              { [tool |-> x, ref |-> cur, ns |-> task.ns, op |-> task.op] :
                                  x \in run.needs }
                       /\ indexRest' = [indexRest EXCEPT ![task.ns] = run.rest]
                       /\ UNCHANGED pendingIndexing
    /\ UNCHANGED <<cacheCur, sdNamespaceVars, statusCache, sessionVars, req, upd, cacheClears, lastFind>>

\* An embedding awaited by indexTool arrives (or fails, which is logged). The
\* entry is written to the Map object indexTool captured. With the last
\* embedding of a batch the loop goes on: it reads the namespace's Map again,
\* which throws when the cache was cleared, and the operation ends.
EmbedDone(task, ok) ==
    /\ task \in inflight
    /\ LET objs == IF ok
                   THEN [cacheObj EXCEPT ![task.ref] =
                            MapSet(@, task.tool.name, IndexEntry(task.tool))]
                   ELSE cacheObj
           left == { x \in inflight \ {task} : x.op = task.op }
           others == (inflight \ {task}) \ left
           cur == cacheCur[task.ns]
       IN  /\ cacheObj' = objs
           /\ IF left # {}
              THEN /\ inflight' = inflight \ {task}
                   /\ UNCHANGED <<pendingIndexing, indexRest>>
              ELSE IF cur = 0
              THEN /\ inflight' = others
                   /\ indexRest' = [indexRest EXCEPT ![task.ns] = <<>>]
                   /\ pendingIndexing' = [pendingIndexing EXCEPT ![task.ns] = 0]
              ELSE LET run == RunBatches(objs[cur], indexRest[task.ns])
                   IN  /\ inflight' = others \cup
                              { [tool |-> x, ref |-> cur, ns |-> task.ns, op |-> task.op] :
                                  x \in run.needs }
                       /\ indexRest' = [indexRest EXCEPT ![task.ns] = run.rest]
                       /\ pendingIndexing' = [pendingIndexing EXCEPT ![task.ns] =
                                                 IF run.needs # {} THEN task.op ELSE 0]
    /\ UNCHANGED <<cacheCur, sdNamespaceVars, statusCache, sessionVars, req, upd, cacheClears, lastFind>>

(***************************************************************************)
(* The environment of the middleware                                       *)
(***************************************************************************)
\* The upstream servers report another tool list.
UpstreamChange ==
    /\ \E l \in UpstreamLists \ {toolList} : toolList' = l
    /\ UNCHANGED <<nsEnabled, nsPinned, statusCache, sessionVars, indexVars, req, upd,
                   cacheClears, lastFind>>

clearSmartDiscoveryCache ==
    /\ statusCache' = <<>>
    /\ cacheCur' = [cacheCur EXCEPT ![CtxNamespace] = 0]
    /\ cacheClears' = cacheClears + 1

\* namespaces.update: the store commits the new row ...
UpdateCommit(enabledArg, pinnedArg) ==
    /\ upd.pc = "idle"
    /\ enabledArg # <<>> => cacheClears < MaxCacheClears
    /\ nsEnabled' = IF enabledArg = <<>> THEN nsEnabled ELSE enabledArg[1]
    /\ nsPinned' = IF pinnedArg = <<>> THEN nsPinned ELSE pinnedArg[1]
    /\ upd' = [pc |-> "committed", enabledGiven |-> enabledArg # <<>>]
    /\ UNCHANGED <<toolList, statusCache, sessionVars, indexVars, req, cacheClears,
                   lastFind>>

\* ... and the handler resumes: the caches are cleared when the flag was given.
UpdateFinish ==
    /\ upd.pc = "committed"
    /\ IF upd.enabledGiven
       THEN clearSmartDiscoveryCache
       ELSE UNCHANGED <<statusCache, cacheCur, cacheClears>>
    /\ upd' = [pc |-> "idle", enabledGiven |-> FALSE]
    /\ UNCHANGED <<sdNamespaceVars, sessionVars, cacheObj, pendingIndexing, indexRest, inflight,
                   req, lastFind>>

\* More than the status TTL passes.
StatusExpires ==
    /\ statusCache # <<>>
    /\ statusCache' = <<>>
    /\ UNCHANGED <<sdNamespaceVars, sessionVars, indexVars, req, upd, cacheClears, lastFind>>

\* More than CLEANUP_INTERVAL passes since the last cleanup.
IntervalPasses ==
    /\ ~cleanupDue
    /\ cleanupDue' = TRUE
    /\ statusCache' = <<>>
    /\ UNCHANGED <<sdNamespaceVars, sessions, otherSessions, indexVars, req, upd, cacheClears, lastFind>>

\* SessionHighWater other sessions each run a find with results, within one interval.
OtherSessionsBurst ==
    /\ otherSessions = 0 /\ ~cleanupDue
    /\ otherSessions' = SessionHighWater
    /\ UNCHANGED <<sdNamespaceVars, statusCache, sessions, cleanupDue, indexVars, req, upd, cacheClears, lastFind>>

\* One of the other sessions runs a find with results: setTools on its own id.
OtherSessionFind ==
    /\ otherSessions > 0
    /\ sessions' = cleanupIfNeeded.sessions
    /\ otherSessions' = IF CleanupWipes THEN 1 ELSE otherSessions
    /\ cleanupDue' = FALSE
    /\ UNCHANGED <<sdNamespaceVars, statusCache, indexVars, req, upd, cacheClears, lastFind>>

\* A finished handler returns at once: nothing else happens before its response.
Quiet == \A r \in Requests : req[r].pc # "done"

ListStep(r) ==
    \/ ListBegin(r)
    \/ ListGotTools(r)
    \/ ListStatusGot(r)
    \/ ListFinish(r)

FindStep(r) ==
    \/ \E q \in QueryArgs, l \in LimitArgs : FindBegin(r, q, l)
    \/ FindStatusGot(r)
    \/ \E ok \in BOOLEAN : FindEmbedded(r, ok)

CallStep(r) ==
    \/ \E n \in PassThroughNames, a \in CallArguments : CallBegin(r, n, a)
    \/ \E res \in HandlerResults : CallReturned(r, res)

UpdateStep ==
    \/ \E e \in {<<>>, <<TRUE>>, <<FALSE>>},
          p \in {<<>>} \cup { <<ps>> : ps \in PinnedChoices } : UpdateCommit(e, p)
    \/ UpdateFinish

\* One downstream session served request by request, the control plane and the
\* upstream servers.
SdNext ==
    \/ Respond("r1")
    \/ Quiet /\ ListStep("r1")
    \/ Quiet /\ FindStep("r1")
    \/ Quiet /\ CallStep("r1")
    \/ Quiet /\ StatusDbRead("r1")
    \/ Quiet /\ \E task \in inflight : EmbedDone(task, TRUE)
    \/ Quiet /\ UpstreamChange
    \/ Quiet /\ UpdateStep
    \/ Quiet /\ StatusExpires

\* Two find calls of the session in flight together, on a namespace whose
\* tools are indexed and whose status lookup goes to the cache or to the store.
RaceNext ==
    \/ \E r \in Requests : FindStep(r)
    \/ \E r \in Requests : StatusDbRead(r)
    \/ \E r \in Requests : Respond(r)
    \/ StatusExpires

\* The index after list_tools has indexed UpstreamListA.
IndexedListA ==
    <<<<AlphaRead, IndexEntry(UpstreamListA[1])>>, <<AlphaWrite, IndexEntry(UpstreamListA[2])>>>>

RaceInit ==
    /\ toolList = UpstreamListA
    /\ nsEnabled = TRUE
    /\ nsPinned = {}
    /\ statusCache = <<TRUE>>
    /\ sessions = << >>
    /\ otherSessions = 0
    /\ cleanupDue = FALSE
    /\ cacheCur = [n \in NamespaceUuids |-> IF n = CtxNamespace THEN 1 ELSE 0]
    /\ cacheObj = <<IndexedListA>>
    /\ pendingIndexing = [n \in NamespaceUuids |-> 0]
    /\ indexRest = [n \in NamespaceUuids |-> <<>>]
    /\ inflight = {}
    /\ req = [r \in Requests |-> IdleReq]
    /\ upd = [pc |-> "idle", enabledGiven |-> FALSE]
    /\ cacheClears = 0
    /\ lastFind = <<>>

(***************************************************************************)
(* Ask-Agent orchestrator (AskAgent.run), wired as the call middleware     *)
(* wires it: search is the discovery index, exec is the next handler,      *)
(* expose is the session manager's setTools.                               *)
(***************************************************************************)
Budget == 200000

MaxToolCallsCap == 20

ExposeLimitCap == 50

ShortlistLimit == 12

\* Length of a plan that proposes more calls than the cap allows.
LongPlanLen == 21

\* A proposed call whose name is the empty string.
NoName == <<>>

AllowedChoices == { <<>>, <<AlphaRead>>, <<AlphaRead, AlphaWrite>> }

DeniedChoices == { <<>>, <<AlphaRead>> }

MaxToolCallsArgs == { -1, 0, 2, 21 }

ExposeLimitArgs == { 0, 1, 51 }

AskQueries == {"read a file"}

\* Token counts of the parts that do not come from the shortlist, as the
\* encoder reports them: around the budget, and a small context.
PartChoices ==
    { [systemPrompt |-> 8, references |-> 99960, query |-> 4, planningPayload |-> p] :
        p \in {99987, 99988, 99989} }

LongPlan == [i \in 1..LongPlanLen |-> GhostTool]

PlanToolCalls ==
    { <<>>, <<FindName, AlphaWrite>>, <<NoName, AlphaRead, AskName>>,
      <<AlphaWrite, GhostTool, AlphaRead>>, LongPlan }

\* Length of the run of one name in an exposeTools list longer than the cap.
LongExposeLen == 51

LongExpose == <<AskName, AlphaRead>> \o [i \in 1..LongExposeLen |-> AlphaWrite]

\* exposeTools of a plan or a report: absent, or a list of names.
ExposeChoices ==
    { <<>>, << <<>> >>, << <<AskName, AlphaWrite, AlphaRead>> >>, << <<AlphaRead>> >>,
      <<LongExpose>> }

VARIABLES
    ask,        \* the run of AskAgent.run in progress, its locals and its result
    llmCalls,   \* number of llm.chatJson calls the run has issued
    execLog     \* the names exec.callTool was invoked with, in order

askVars == <<ask, llmCalls, execLog>>

NoResult == [kind |-> "none", toolCallsExecuted |-> <<>>, exposedTools |-> <<>>]

IdleAsk ==
    [pc |-> "idle", allowedTools |-> <<>>, deniedTools |-> <<>>,
     rawMaxToolCalls |-> 0, maxToolCalls |-> 0, rawExposeLimit |-> 0,
     exposeLimit |-> 0, query |-> "", parts |-> <<>>, total |-> <<>>, plan |-> <<>>,
     report |-> <<>>, requestedToolCalls |-> <<>>,
     toolCallsExecuted |-> <<>>, exposedBefore |-> {}, result |-> NoResult]

AskInit ==
    /\ ask = IdleAsk
    /\ llmCalls = 0
    /\ execLog = <<>>

sdRest == <<toolList, nsEnabled, nsPinned, statusCache, cacheCur, cacheObj,
            pendingIndexing, indexRest, inflight, req, upd, cacheClears, lastFind>>

IsSynthetic(fullName) == fullName = AskName \/ fullName = FindName

isAllowedMutAllowFirst(denied, allowlist, toolFullName) ==
    IF toolFullName \in SeqRange(allowlist) THEN TRUE
    ELSE IF toolFullName \in SeqRange(denied) THEN FALSE
    ELSE Len(allowlist) = 0

isAllowed(denied, allowlist, toolFullName) ==
    IF toolFullName \in SeqRange(denied) THEN FALSE
    ELSE IF Len(allowlist) = 0 THEN TRUE
    ELSE toolFullName \in SeqRange(allowlist)

ClampMaxToolCallsMutNoCap(n) == Max(0, n)

ClampMaxToolCalls(n) == Max(0, Min(n, MaxToolCallsCap))

ClampExposeLimitMutNoCap(n) == Max(0, n)

ClampExposeLimit(n) == Max(0, Min(n, ExposeLimitCap))

OverBudgetMutAtLeast(total) == total >= Budget

OverBudget(total) == total > Budget

\* tokenCounter.count of JSON.stringify(toolCandidates).
CandidateTokens(shortlist) == 20 * Len(shortlist)

TotalTokens(parts, shortlist) ==
    parts.systemPrompt + CandidateTokens(shortlist) + parts.references
        + parts.query + parts.planningPayload

RECURSIVE SeqFilterNamed(_)
SeqFilterNamed(calls) ==
    IF calls = <<>> THEN <<>>
    ELSE IF Head(calls) = NoName THEN SeqFilterNamed(Tail(calls))
    ELSE <<Head(calls)>> \o SeqFilterNamed(Tail(calls))

RECURSIVE FilterExposable(_, _, _)
FilterExposable(names, denied, allowlist) ==
    IF names = <<>> THEN <<>>
    ELSE IF /\ Head(names) # NoName
            /\ ~IsSynthetic(Head(names))
            /\ isAllowed(denied, allowlist, Head(names))
         THEN <<Head(names)>> \o FilterExposable(Tail(names), denied, allowlist)
         ELSE FilterExposable(Tail(names), denied, allowlist)

AskFinish(result) == [ask EXCEPT !.pc = "done", !.result = result]

\* run(): the disabled check, the clamps, and the call of search.search.
AskStart(enabled, allowed, denied, maxToolCallsArg, exposeLimitArg, query, parts) ==
    /\ ask.pc = "idle"
    /\ LET started == [IdleAsk EXCEPT
                          !.allowedTools = allowed, !.deniedTools = denied,
                          !.rawMaxToolCalls = maxToolCallsArg,
                          !.rawExposeLimit = exposeLimitArg,
                          !.query = query, !.parts = <<parts>>,
                          !.exposedBefore =
                              getDiscoveredToolNames(CtxSession, CtxNamespace)]
       IN  IF ~enabled
           THEN ask' = [started EXCEPT !.pc = "done",
                           !.result = [NoResult EXCEPT !.kind = "disabled"]]
           ELSE ask' = [started EXCEPT !.pc = "search",
                           !.maxToolCalls = ClampMaxToolCalls(maxToolCallsArg),
                           !.exposeLimit = ClampExposeLimit(exposeLimitArg)]
    /\ llmCalls' = 0
    /\ execLog' = <<>>
    /\ UNCHANGED <<sessionVars, sdRest>>

\* The shortlist arrives; the token budget check; the plan call is issued.
AskSearched ==
    /\ ask.pc = "search"
    /\ LET shortlist == IF cacheCur[CtxNamespace] = 0 THEN <<>>
                        ELSE searchResults(cacheObj[cacheCur[CtxNamespace]], ask.query,
                                           ShortlistLimit)
           total == TotalTokens(ask.parts[1], shortlist)
       IN  IF OverBudget(total)
           THEN /\ ask' = [AskFinish([NoResult EXCEPT !.kind = "over_budget"])
                              EXCEPT !.total = <<total>>]
                /\ UNCHANGED llmCalls
           ELSE /\ ask' = [ask EXCEPT !.pc = "plan", !.total = <<total>>]
                /\ llmCalls' = llmCalls + 1
    /\ UNCHANGED <<execLog, sessionVars, sdRest>>

\* The plan call returns (or throws); the proposed calls are selected.
AskPlanned(ok, toolCalls, exposeTools) ==
    /\ ask.pc = "plan"
    /\ IF ~ok
       THEN ask' = AskFinish([NoResult EXCEPT !.kind = "error"])
       ELSE ask' = [ask EXCEPT
                       !.pc = "exec",
                       !.plan = <<[toolCalls |-> toolCalls, exposeTools |-> exposeTools]>>,
                       !.requestedToolCalls =
                           JsSliceFromZero(SeqFilterNamed(toolCalls), ask.maxToolCalls)]
    /\ UNCHANGED <<llmCalls, execLog, sessionVars, sdRest>>

Executed(fullName, ok, why) == [name |-> fullName, ok |-> ok, why |-> why]

AskExecStepMutAbortOnError(ok) ==
    /\ ask.pc = "exec"
    /\ Len(ask.toolCallsExecuted) < Len(ask.requestedToolCalls)
    /\ LET fullName == ask.requestedToolCalls[Len(ask.toolCallsExecuted) + 1]
           push(e) == [ask EXCEPT !.toolCallsExecuted = Append(@, e)]
       IN  IF IsSynthetic(fullName)
           THEN /\ ok
                /\ ask' = push(Executed(fullName, FALSE, "recursive"))
                /\ UNCHANGED execLog
           ELSE IF ~isAllowed(ask.deniedTools, ask.allowedTools, fullName)
           THEN /\ ok
                /\ ask' = push(Executed(fullName, FALSE, "not_allowed"))
                /\ UNCHANGED execLog
           ELSE /\ ok => fullName \in SeqNames(toolList)
                /\ execLog' = Append(execLog, fullName)
                /\ ask' = IF ok THEN push(Executed(fullName, TRUE, "output"))
                          ELSE AskFinish([NoResult EXCEPT !.kind = "error"])
    /\ UNCHANGED <<llmCalls, sessionVars, sdRest>>

\* One iteration of the loop over the selected calls.
AskExecStep(ok) ==
    /\ ask.pc = "exec"
    /\ Len(ask.toolCallsExecuted) < Len(ask.requestedToolCalls)
    /\ LET fullName == ask.requestedToolCalls[Len(ask.toolCallsExecuted) + 1]
           push(e) == [ask EXCEPT !.toolCallsExecuted = Append(@, e)]
       IN  IF IsSynthetic(fullName)
           THEN /\ ok
                /\ ask' = push(Executed(fullName, FALSE, "recursive"))
                /\ UNCHANGED execLog
           ELSE IF ~isAllowed(ask.deniedTools, ask.allowedTools, fullName)
           THEN /\ ok
                /\ ask' = push(Executed(fullName, FALSE, "not_allowed"))
                /\ UNCHANGED execLog
           ELSE /\ ok => fullName \in SeqNames(toolList)
                /\ execLog' = Append(execLog, fullName)
                /\ ask' = push(Executed(fullName, ok, IF ok THEN "output" ELSE "error"))
    /\ UNCHANGED <<llmCalls, sessionVars, sdRest>>

\* The loop is over: the report call is issued.
AskLoopDone ==
    /\ ask.pc = "exec"
    /\ Len(ask.toolCallsExecuted) = Len(ask.requestedToolCalls)
    /\ ask' = [ask EXCEPT !.pc = "report"]
    /\ llmCalls' = llmCalls + 1
    /\ UNCHANGED <<execLog, sessionVars, sdRest>>

AskReportedMutExposesOnError(ok, reportExpose) ==
    /\ ask.pc = "report"
    /\ LET candidates == IF ok /\ reportExpose # <<>> THEN reportExpose[1]
                         ELSE IF ask.plan[1].exposeTools # <<>>
                         THEN ask.plan[1].exposeTools[1]
                         ELSE <<>>
           exposeTools == JsSliceFromZero(
                              FilterExposable(candidates, ask.deniedTools, ask.allowedTools),
                              ask.exposeLimit)
       IN  /\ IF ~ok
              THEN ask' = AskFinish([NoResult EXCEPT !.kind = "error"])
              ELSE ask' = [AskFinish([kind |-> "ok",
                                      toolCallsExecuted |-> ask.toolCallsExecuted,
                                      exposedTools |-> exposeTools])
                              EXCEPT !.report = <<[exposeTools |-> reportExpose]>>]
           /\ IF Len(exposeTools) > 0
              THEN setTools(CtxSession, CtxNamespace, exposeTools)
              ELSE UNCHANGED sessionVars
    /\ UNCHANGED <<llmCalls, execLog, sdRest>>

\* The report call returns (or throws); the expose step and the result.
AskReported(ok, reportExpose) ==
    /\ ask.pc = "report"
    /\ LET candidates == IF reportExpose # <<>> THEN reportExpose[1]
                         ELSE IF ask.plan[1].exposeTools # <<>>
                         THEN ask.plan[1].exposeTools[1]
                         ELSE <<>>
           exposeTools == JsSliceFromZero(
                              FilterExposable(candidates, ask.deniedTools, ask.allowedTools),
                              ask.exposeLimit)
       IN  IF ~ok
           THEN /\ ask' = AskFinish([NoResult EXCEPT !.kind = "error"])
                /\ UNCHANGED sessionVars
           ELSE /\ ask' = [AskFinish([kind |-> "ok",
                                      toolCallsExecuted |-> ask.toolCallsExecuted,
                                      exposedTools |-> exposeTools])
                              EXCEPT !.report = <<[exposeTools |-> reportExpose]>>]
                /\ IF Len(exposeTools) > 0
                   THEN setTools(CtxSession, CtxNamespace, exposeTools)
                   ELSE UNCHANGED sessionVars
    /\ UNCHANGED <<llmCalls, execLog, sdRest>>

\* The answer has gone back to the client.
AskRespond ==
    /\ ask.pc = "done"
    /\ ask' = IdleAsk
    /\ UNCHANGED <<llmCalls, execLog, sessionVars, sdRest>>

AskNext ==
    \/ \E enabled \in BOOLEAN, allowed \in AllowedChoices, denied \in DeniedChoices,
          m \in MaxToolCallsArgs, e \in ExposeLimitArgs, q \in AskQueries,
          parts \in PartChoices :
            AskStart(enabled, allowed, denied, m, e, q, parts)
    \/ AskSearched
    \/ \E ok \in BOOLEAN, tc \in PlanToolCalls, ex \in ExposeChoices :
            AskPlanned(ok, tc, ex)
    \/ \E ok \in BOOLEAN : AskExecStep(ok)
    \/ AskLoopDone
    \/ \E ok \in BOOLEAN, ex \in ExposeChoices : AskReported(ok, ex)
    \/ AskRespond

(***************************************************************************)
(* Agent documents: uploadAgentDocument / deleteAgentDocument over the     *)
(* documents repository. One agent, owned (through its namespace) by u1.   *)
(***************************************************************************)
DocTokenLimit == 200000

\* Number of uploads that may be started in one behaviour.
MaxUploads == 3

Uploads == {"c1", "c2"}

Users == {"u1", "u2"}

AgentOwner == "u1"

\* tokenCounter.count(model, content) of the contents that are uploaded.
ContentTokens == {100, 200, 199900}

VARIABLES
    docs,           \* rows of the agent's documents: [uuid, token_count]
    nextDocUuid,    \* the next row id the store hands out
    upl             \* the uploadAgentDocument calls in progress

docVars == <<docs, nextDocUuid, upl>>

IdleUpload ==
    [pc |-> "idle", userId |-> "", newTokens |-> 0, existingTokens |-> 0,
     docsRead |-> {}, docsAtReturn |-> {}, docUuid |-> <<>>, result |-> "none"]

DocInit ==
    /\ docs = {}
    /\ nextDocUuid = 1
    /\ upl = [c \in Uploads |-> IdleUpload]

RECURSIVE SumTokenCount(_)
SumTokenCount(rows) ==
    IF rows = {} THEN 0
    ELSE LET d == CHOOSE x \in rows : TRUE
         IN  d.token_count + SumTokenCount(rows \ {d})

ExceedsDocBudgetMutNewOnly(existingTokens, newTokens) == newTokens > DocTokenLimit

ExceedsDocBudget(existingTokens, newTokens) == existingTokens + newTokens > DocTokenLimit

\* The agent and namespace lookups and the ownership check; listByAgent is issued.
UploadBegin(c, userId, newTokens) ==
    /\ upl[c].pc = "idle"
    /\ nextDocUuid + Cardinality({x \in Uploads : upl[x].pc \in {"list", "insert"}})
          <= MaxUploads
    /\ IF userId # AgentOwner
       THEN upl' = [upl EXCEPT ![c] = [IdleUpload EXCEPT
                       !.pc = "done", !.userId = userId, !.newTokens = newTokens,
                       !.docsAtReturn = docs, !.result = "access_denied"]]
       ELSE upl' = [upl EXCEPT ![c] = [IdleUpload EXCEPT
                       !.pc = "list", !.userId = userId, !.newTokens = newTokens]]
    /\ UNCHANGED <<docs, nextDocUuid>>

\* listByAgent answers; the budget check; addDoc is issued when it passes.
UploadListed(c) ==
    /\ upl[c].pc = "list"
    /\ LET existingTokens == SumTokenCount(docs)
       IN  IF ExceedsDocBudget(existingTokens, upl[c].newTokens)
           THEN upl' = [upl EXCEPT ![c].pc = "done",
                                   ![c].existingTokens = existingTokens,
                                   ![c].docsRead = docs,
                                   ![c].docsAtReturn = docs,
                                   ![c].result = "budget_exceeded"]
           ELSE upl' = [upl EXCEPT ![c].pc = "insert",
                                   ![c].existingTokens = existingTokens,
                                   ![c].docsRead = docs]
    /\ UNCHANGED <<docs, nextDocUuid>>

\* addDoc: the row is inserted with the token count of its content.
addDoc(c) ==
    /\ upl[c].pc = "insert"
    /\ docs' = docs \cup {[uuid |-> nextDocUuid, token_count |-> upl[c].newTokens]}
    /\ nextDocUuid' = nextDocUuid + 1
    /\ upl' = [upl EXCEPT ![c].pc = "done",
                          ![c].docUuid = <<nextDocUuid>>,
                          ![c].docsAtReturn = docs',
                          ![c].result = "success"]

UploadRespond(c) ==
    /\ upl[c].pc = "done"
    /\ upl' = [upl EXCEPT ![c] = IdleUpload]
    /\ UNCHANGED <<docs, nextDocUuid>>

\* deleteAgentDocument by the owner of a stored document.
deleteAgentDocument(d) ==
    /\ d \in docs
    /\ docs' = docs \ {d}
    /\ UNCHANGED <<nextDocUuid, upl>>

DocNext ==
    \/ \E c \in Uploads, u \in Users, n \in ContentTokens : UploadBegin(c, u, n)
    \/ \E c \in Uploads : UploadListed(c)
    \/ \E c \in Uploads : addDoc(c)
    \/ \E c \in Uploads : UploadRespond(c)
    \/ \E d \in docs : deleteAgentDocument(d)

(***************************************************************************)
(* Namespace ownership: namespaces.create / namespaces.update with their   *)
(* validation of the selected servers. The namespaces repository itself is *)
(* modelled as the persistence port: create stores the row and its server  *)
(* memberships; update overwrites the fields that are given.               *)
(***************************************************************************)
NamespaceIds == {"n1", "n2"}

\* user_id of a row: <<>> is null (public), <<u>> is the owner.
Public == <<>>

\* The MCP servers in the store and their user_id.
ServerOwner == [sv1 |-> <<"u1">>, sv2 |-> Public, sv3 |-> <<"u2">>]

ServerUuids == DOMAIN ServerOwner

\* An optional request field: <<>> when undefined, <<v>> when given.
UserIdArgs == { <<>>, <<Public>>, << <<"u1">> >>, << <<"u2">> >> }

McpServerUuidsArgs ==
    { <<>>, << <<>> >>, << <<"sv1">> >>, << <<"sv2">> >>, << <<"sv1", "sv2">> >>,
      << <<"sv3">> >>, << <<"sv9">> >> }

VARIABLES
    nsOwner,        \* user_id of each stored namespace
    nsServers,      \* server memberships of each stored namespace
    nsLast          \* the last create / update and whether it succeeded

ownVars == <<nsOwner, nsServers, nsLast>>

OwnInit ==
    /\ nsOwner = << >>
    /\ nsServers = << >>
    /\ nsLast = [op |-> "init", uuid |-> "", success |-> FALSE]

\* The validation block shared by create and update: "ok" or the refusal.
ValidateServers(mcpServerUuids, userId, isPublicNamespace) ==
    IF mcpServerUuids = <<>> \/ Len(mcpServerUuids[1]) = 0 THEN "ok"
    ELSE LET uuids == mcpServerUuids[1]
         IN  IF \E i \in 1..Len(uuids) : uuids[i] \notin ServerUuids
             THEN "missing"
             ELSE IF \E i \in 1..Len(uuids) :
                        /\ ServerOwner[uuids[i]] # Public
                        /\ ServerOwner[uuids[i]] # <<userId>>
             THEN "no_access"
             ELSE IF isPublicNamespace
                     /\ \E i \in 1..Len(uuids) : ServerOwner[uuids[i]] # Public
             THEN "private_in_public"
             ELSE "ok"

\* namespacesRepository.create
RepoCreate(uuid, user_id, mcpServerUuids) ==
    /\ nsOwner' = [n \in DOMAIN nsOwner \cup {uuid} |->
                      IF n = uuid THEN user_id ELSE nsOwner[n]]
    /\ nsServers' = [n \in DOMAIN nsServers \cup {uuid} |->
                      IF n = uuid
                      THEN IF mcpServerUuids = <<>> THEN {} ELSE SeqRange(mcpServerUuids[1])
                      ELSE nsServers[n]]

\* namespacesRepository.update
RepoUpdate(uuid, user_id, mcpServerUuids) ==
    /\ nsOwner' = IF user_id = <<>> THEN nsOwner
                  ELSE [nsOwner EXCEPT ![uuid] = user_id[1]]
    /\ nsServers' = IF mcpServerUuids = <<>> THEN nsServers
                    ELSE [nsServers EXCEPT ![uuid] = SeqRange(mcpServerUuids[1])]

NamespaceCreate(uuid, user_id, mcpServerUuids, userId) ==
    /\ uuid \notin DOMAIN nsOwner
    /\ LET effectiveUserId == IF user_id # <<>> THEN user_id[1] ELSE <<userId>>
           isPublicNamespace == effectiveUserId = Public
       IN  IF ValidateServers(mcpServerUuids, userId, isPublicNamespace) = "ok"
           THEN /\ RepoCreate(uuid, effectiveUserId, mcpServerUuids)
                /\ nsLast' = [op |-> "create", uuid |-> uuid, success |-> TRUE]
           ELSE /\ nsLast' = [op |-> "create", uuid |-> uuid, success |-> FALSE]
                /\ UNCHANGED <<nsOwner, nsServers>>

NamespaceUpdate(uuid, user_id, mcpServerUuids, userId) ==
    /\ uuid \in DOMAIN nsOwner
    /\ LET existing == nsOwner[uuid]
           effectiveUserId == IF user_id # <<>> THEN user_id[1] ELSE existing
           isPublicNamespace == effectiveUserId = Public
       IN  IF existing # Public /\ existing # <<userId>>
           THEN /\ nsLast' = [op |-> "update", uuid |-> uuid, success |-> FALSE]
                /\ UNCHANGED <<nsOwner, nsServers>>
           ELSE IF ValidateServers(mcpServerUuids, userId, isPublicNamespace) = "ok"
           THEN /\ RepoUpdate(uuid, user_id, mcpServerUuids)
                /\ nsLast' = [op |-> "update", uuid |-> uuid, success |-> TRUE]
           ELSE /\ nsLast' = [op |-> "update", uuid |-> uuid, success |-> FALSE]
                /\ UNCHANGED <<nsOwner, nsServers>>

OwnNext ==
    \/ \E n \in NamespaceIds, u \in UserIdArgs, m \in McpServerUuidsArgs, caller \in Users :
            NamespaceCreate(n, u, m, caller)
    \/ \E n \in NamespaceIds, u \in UserIdArgs, m \in McpServerUuidsArgs, caller \in Users :
            NamespaceUpdate(n, u, m, caller)

(***************************************************************************)
(* DiscoveryService on its own: indexTools and search called directly, for *)
(* two namespaces, with the embeddings of a batch completing in any order. *)
(***************************************************************************)
BetaWrite == <<"beta", "write">>

\* alpha__write and beta__write embed to vectors equally close to the query.
IxListTies == <<MkTool(AlphaWrite, "d1"), MkTool(BetaWrite, "d1"), MkTool(AlphaRead, "d1")>>

\* The same tools later: alpha__write with another input schema only,
\* alpha__read with another description.
IxListChanged ==
    <<[MkTool(AlphaWrite, "d1") EXCEPT !.inputSchema = "schema2"],
      MkTool(BetaWrite, "d1"), MkTool(AlphaRead, "d2")>>

IxListOther == <<MkTool(GhostTool, "d1")>>

\* More tools than one batch holds.
IxListLong ==
    IxListTies \o <<MkTool(GhostTool, "d1"), MkTool(<<"gamma", "list">>, "d1"),
                    MkTool(<<"gamma", "stat">>, "d1")>>

IxLists == {IxListTies, IxListChanged, IxListOther, IxListLong}

IxCallers == {"i1", "i2"}

SearchLimits == {-1, 0, 2, 5}

SearchThresholds == {30, 60}

VARIABLES
    ixCalls,    \* the indexTools calls in progress
    srch,       \* the search call in progress
    firstTopK   \* <<result>> of the first index-then-search execution

ixVars == <<ixCalls, srch, firstTopK>>

IdleIxCall ==
    [pc |-> "idle", ns |-> "", tools |-> <<>>, op |-> 0, own |-> FALSE,
     before |-> <<>>, embedded |-> {}, after |-> <<>>]

IdleSearch ==
    [pc |-> "idle", ns |-> "", query |-> "", limit |-> 0, threshold |-> 0,
     emptyAtCall |-> FALSE, ref |-> 0, embedCalls |-> 0, indexed |-> <<>>,
     settled |-> FALSE, result |-> <<>>]

IxInit ==
    /\ ixCalls = [c \in IxCallers |-> IdleIxCall]
    /\ srch = IdleSearch
    /\ firstTopK = <<>>

sdNoIndex == <<toolList, nsEnabled, nsPinned, statusCache, sessionVars, req, upd,
               cacheClears, lastFind>>

\* The Map of a namespace, <<>> when it has none.
NamespaceMap(namespaceUuid) ==
    IF cacheCur[namespaceUuid] = 0 THEN <<>> ELSE cacheObj[cacheCur[namespaceUuid]]

\* search(ns, query, limit, threshold) up to the await of the query embedding.
SearchCall(namespaceUuid, query, limit, threshold) ==
    /\ srch.pc = "idle"
    /\ LET called == [IdleSearch EXCEPT !.ns = namespaceUuid, !.query = query,
                         !.limit = limit, !.threshold = threshold,
                         !.emptyAtCall = (NamespaceMap(namespaceUuid) = <<>>)]
       IN  IF cacheCur[namespaceUuid] = 0 \/ Len(NamespaceMap(namespaceUuid)) = 0
           THEN srch' = [called EXCEPT !.pc = "done"]
           ELSE srch' = [called EXCEPT !.pc = "embedding",
                            !.ref = cacheCur[namespaceUuid], !.embedCalls = 1]
    /\ UNCHANGED <<ixCalls, firstTopK, indexVars, sdNoIndex>>

\* The limit of the searches whose first result is remembered.
TopK == 2

\* The Map holds the entries of exactly the tools of `tools`.
IndexedExactly(map, tools) ==
    /\ Len(map) = Len(tools)
    /\ \A j \in 1..Len(tools) :
           /\ MapHas(map, tools[j].name)
           /\ MapGet(map, tools[j].name) = IndexEntry(tools[j])

\* Settled promises are continued before anything else runs.
NoneSettled ==
    /\ srch.pc # "done"
    /\ \A c \in IxCallers : ixCalls[c].pc # "done"

\* The query embedding arrives: the captured Map is scored, sorted and cut.
SearchEmbedded ==
    /\ srch.pc = "embedding"
    /\ LET map == cacheObj[srch.ref]
       IN  srch' = [srch EXCEPT !.pc = "done", !.indexed = map,
                       !.settled = /\ pendingIndexing[srch.ns] = 0
                                   /\ IndexedExactly(map, IxListTies),
                       !.result = searchWith(map, srch.query, srch.limit,
                                             srch.threshold)]
    /\ UNCHANGED <<ixCalls, indexVars, sdNoIndex>>

SearchReturn ==
    /\ srch.pc = "done"
    /\ srch' = IdleSearch
    /\ UNCHANGED <<ixCalls, firstTopK, indexVars, sdNoIndex>>

\* The tools whose embedding a step requests.
Requested == { t.tool : t \in inflight' \ inflight }

\* A caller invokes indexTools and then awaits the promise it got.
IxCall(c, namespaceUuid, tools) ==
    /\ ixCalls[c].pc = "idle"
    /\ indexTools(namespaceUuid, tools)
    /\ LET own == pendingIndexing[namespaceUuid] = 0
           op == IF own THEN NewOp ELSE pendingIndexing[namespaceUuid]
           pending == pendingIndexing'[namespaceUuid] = op
       IN  ixCalls' = [ixCalls EXCEPT ![c] =
               [pc |-> IF pending THEN "waiting" ELSE "done",
                ns |-> namespaceUuid, tools |-> tools, op |-> op, own |-> own,
                before |-> NamespaceMap(namespaceUuid), embedded |-> Requested,
                after |-> IF pending THEN <<>> ELSE cacheObj'[cacheCur'[namespaceUuid]]]]
    /\ UNCHANGED <<srch, firstTopK, sdNoIndex>>

\* An embedding of an indexing operation arrives; when the operation ends, the
\* promise settles for every caller awaiting it.
IxEmbedDone(task) ==
    /\ EmbedDone(task, TRUE)
    /\ ixCalls' = [c \in IxCallers |->
           IF ixCalls[c].pc = "waiting" /\ ixCalls[c].op = task.op
           THEN IF pendingIndexing'[task.ns] = task.op
                THEN [ixCalls[c] EXCEPT !.embedded =
                         IF ixCalls[c].own THEN @ \cup Requested ELSE @]
                ELSE [ixCalls[c] EXCEPT !.pc = "done",
                         !.after = IF cacheCur'[task.ns] = 0 THEN <<>>
                                   ELSE cacheObj'[cacheCur'[task.ns]]]
           ELSE ixCalls[c]]
    /\ UNCHANGED <<srch, firstTopK>>

IxReturn(c) ==
    /\ ixCalls[c].pc = "done"
    /\ ixCalls' = [ixCalls EXCEPT ![c] = IdleIxCall]
    /\ UNCHANGED <<srch, firstTopK, indexVars, sdNoIndex>>

\* The first caller works on the namespace of the searches; the second one
\* joins it there or indexes the other namespace. The long list comes when the
\* namespace has three tools indexed.
IxCallChoices ==
    ({"i1"} \X {CtxNamespace} \X {IxListTies, IxListChanged})
        \cup ({"i2"} \X {CtxNamespace} \X {IxListTies, IxListChanged})
        \cup ({"i2"} \X (NamespaceUuids \ {CtxNamespace}) \X {IxListOther})

IxNext ==
    \/ NoneSettled /\ \E ch \in IxCallChoices : IxCall(ch[1], ch[2], ch[3])
    \/ /\ NoneSettled
       /\ Len(NamespaceMap(CtxNamespace)) >= Len(IxListTies)
       /\ IxCall("i1", CtxNamespace, IxListLong)
    \/ NoneSettled /\ \E task \in inflight : IxEmbedDone(task)
    \/ \E c \in IxCallers : IxReturn(c)
    \/ /\ NoneSettled
       /\ \E l \in SearchLimits, th \in SearchThresholds :
              SearchCall(CtxNamespace, "read a file", l, th)
    \/ NoneSettled /\ SearchEmbedded /\ UNCHANGED firstTopK
    \/ SearchReturn

(***************************************************************************)
(* Index-then-search, executed again and again by restarting the process.  *)
(***************************************************************************)
\* The first settled top-k search of the fixed tool list is remembered.
RerunSearchEmbedded ==
    /\ SearchEmbedded
    /\ firstTopK' = IF srch'.settled /\ firstTopK = <<>> THEN <<srch'.result>>
                    ELSE firstTopK

\* The process is started again: the index and every call in progress are gone.
Restart ==
    /\ cacheCur' = [n \in NamespaceUuids |-> 0]
    /\ cacheObj' = <<>>
    /\ pendingIndexing' = [n \in NamespaceUuids |-> 0]
    /\ indexRest' = [n \in NamespaceUuids |-> <<>>]
    /\ inflight' = {}
    /\ ixCalls' = [c \in IxCallers |-> IdleIxCall]
    /\ srch' = IdleSearch
    /\ UNCHANGED <<firstTopK, sdNoIndex>>

RerunNext ==
    \/ NoneSettled /\ \E c \in IxCallers : IxCall(c, CtxNamespace, IxListTies)
    \/ NoneSettled /\ \E task \in inflight : IxEmbedDone(task)
    \/ \E c \in IxCallers : IxReturn(c)
    \/ NoneSettled /\ SearchCall(CtxNamespace, "read a file", TopK, SearchThreshold)
    \/ NoneSettled /\ RerunSearchEmbedded
    \/ SearchReturn
    \/ Restart

(***************************************************************************)
(* DiscoveryService with clearNamespaceCache: indexTools calls on one       *)
(* namespace whose index is cleared while an operation is pending.          *)
(***************************************************************************)
VARIABLES
    issued,     \* names passed to indexTools calls since the latest clear
    stale       \* names passed to indexTools calls before the latest clear

clrVars == <<issued, stale>>

ClrInit ==
    /\ issued = {}
    /\ stale = {}

\* A caller invokes indexTools on the namespace.
ClrCall(c, tools) ==
    /\ IxCall(c, CtxNamespace, tools)
    /\ issued' = issued \cup SeqNames(tools)
    /\ UNCHANGED stale

\* clearNamespaceCache(ns): the Map of the namespace is dropped from the cache.
clearNamespaceCache(namespaceUuid) ==
    /\ cacheClears < MaxCacheClears
    /\ cacheCur[namespaceUuid] # 0
    /\ cacheCur' = [cacheCur EXCEPT ![namespaceUuid] = 0]
    /\ cacheClears' = cacheClears + 1
    /\ stale' = stale \cup issued
    /\ issued' = {}
    /\ UNCHANGED <<cacheObj, pendingIndexing, indexRest, inflight, ixCalls, srch, firstTopK,
                   toolList, nsEnabled, nsPinned, statusCache, sessionVars, req, upd,
                   lastFind>>

\* The long list is passed before the clear, the short one at any time.
ClrNext ==
    \/ /\ NoneSettled
       /\ cacheClears = 0
       /\ \E c \in IxCallers : ClrCall(c, IxListLong)
    \/ NoneSettled /\ \E c \in IxCallers : ClrCall(c, IxListOther)
    \/ NoneSettled /\ \E task \in inflight : IxEmbedDone(task) /\ UNCHANGED clrVars
    \/ \E c \in IxCallers : IxReturn(c) /\ UNCHANGED clrVars
    \/ NoneSettled /\ clearNamespaceCache(CtxNamespace)

(***************************************************************************)
(* The control plane: the namespace procedures and what they invalidate     *)
(***************************************************************************)
CpKinds ==
    {"create", "update", "delete", "updateServerStatus", "updateToolStatus",
     "updateToolOverrides", "refreshTools"}

CpCallers == {"u1", "u2"}

\* The procedures that call the pool.
PoolCallers == {"create", "update", "delete", "updateServerStatus", "refreshTools"}

\* input.tools of refreshTools: none, names without separator only, names of
\* a server the namespace does not have, names of a server it has.
RefreshInputs == {"none", "unparsable", "unknown_server", "valid"}

VARIABLES
    cpRows,         \* the stored namespaces and their user_id
    overrideCache,  \* whether the tool-override cache holds a map for a namespace
    cpOp,           \* the control-plane procedure in progress
    bgTasks         \* pool calls launched and not yet settled

cpVars == <<cpRows, overrideCache, cpOp, bgTasks>>

IdleCpOp ==
    [pc |-> "idle", kind |-> "", ns |-> "", caller |-> "", tools |-> "",
     persisted |-> FALSE, triggered |-> {}, failed |-> {}, success |-> FALSE]

CpInit ==
    /\ cpRows = [n \in {CtxNamespace} |-> <<"u1">>]
    /\ overrideCache = [n \in NamespaceUuids |-> FALSE]
    /\ cpOp = IdleCpOp
    /\ bgTasks = {}

\* tool-overrides.functional: the cache entry of the namespace is dropped.
clearOverrideCache(namespaceUuid) ==
    overrideCache' = [overrideCache EXCEPT ![namespaceUuid] = FALSE]

\* tool-overrides.functional: a lookup builds the map of the namespace from the
\* membership rows when the cache has none.
mapOverrideNameToOriginal(namespaceUuid) ==
    overrideCache' = [overrideCache EXCEPT ![namespaceUuid] = TRUE]

\* A list_tools or call_tool of a downstream session goes through the
\* tool-override middleware.
OverrideLookup(namespaceUuid) ==
    /\ namespaceUuid \in DOMAIN cpRows
    /\ ~overrideCache[namespaceUuid]
    /\ mapOverrideNameToOriginal(namespaceUuid)
    /\ UNCHANGED <<cpRows, cpOp, bgTasks>>

CpFail == [cpOp EXCEPT !.pc = "done", !.success = FALSE]

\* The pool calls a procedure launches without awaiting them.
Launch(kinds) == bgTasks \cup { [kind |-> k, ns |-> cpOp.ns] : k \in kinds }

\* A procedure is called; all but create first look the namespace up.
CpBegin(kind, namespaceUuid, userId, tools) ==
    /\ cpOp.pc = "idle"
    /\ bgTasks = {}
    /\ kind = "create" => namespaceUuid \notin DOMAIN cpRows
    /\ (tools # "") = (kind = "refreshTools")
    /\ cpOp' = [IdleCpOp EXCEPT !.pc = IF kind = "create" THEN "write" ELSE "lookup",
                   !.kind = kind, !.ns = namespaceUuid, !.caller = userId,
                   !.tools = tools]
    /\ UNCHANGED <<cpRows, overrideCache, bgTasks>>

\* findByUuid has answered: existence and ownership, and for refreshTools the
\* check of input.tools and the parsing of the names.
CpLooked ==
    /\ cpOp.pc = "lookup"
    /\ IF cpOp.ns \notin DOMAIN cpRows
       THEN cpOp' = CpFail
       ELSE IF cpRows[cpOp.ns] # <<>> /\ cpRows[cpOp.ns] # <<cpOp.caller>>
       THEN cpOp' = CpFail
       ELSE IF cpOp.kind # "refreshTools"
       THEN cpOp' = [cpOp EXCEPT !.pc = "write"]
       ELSE IF cpOp.tools = "none"
       THEN cpOp' = [cpOp EXCEPT !.pc = "done", !.success = TRUE]
       ELSE IF cpOp.tools = "unparsable"
       THEN cpOp' = [cpOp EXCEPT !.pc = "done", !.success = TRUE]
       ELSE cpOp' = [cpOp EXCEPT !.pc = "parse"]
    /\ UNCHANGED <<cpRows, overrideCache, bgTasks>>

\* refreshTools: mapOverrideNameToOriginal has answered for the parsed names
\* (or thrown, which is logged); the servers of the namespace are read.
CpParsed(ok) ==
    /\ cpOp.pc = "parse"
    /\ IF ok THEN mapOverrideNameToOriginal(cpOp.ns) ELSE UNCHANGED overrideCache
    /\ cpOp' = [cpOp EXCEPT !.pc = "servers"]
    /\ UNCHANGED <<cpRows, bgTasks>>

\* refreshTools: findByUuidWithServers has answered; the tools are grouped by
\* server.
CpServers ==
    /\ cpOp.pc = "servers"
    /\ IF cpOp.ns \notin DOMAIN cpRows \/ cpOp.tools = "unknown_server"
       THEN cpOp' = CpFail
       ELSE cpOp' = [cpOp EXCEPT !.pc = "write"]
    /\ UNCHANGED <<cpRows, overrideCache, bgTasks>>

\* The repository call of the procedure has answered: it threw, it found no
\* row to change, or it has stored the change; then the rest of the procedure
\* up to its return (for delete: up to the await of cleanupIdleServer).
CpWrote(ok, found) ==
    /\ cpOp.pc = "write"
    /\ IF ~ok
       THEN /\ cpOp' = CpFail
            /\ UNCHANGED <<cpRows, overrideCache, bgTasks>>
       ELSE IF /\ cpOp.kind \in {"delete", "updateServerStatus", "updateToolStatus",
                                 "updateToolOverrides"}
               /\ ~found
       THEN /\ cpOp' = CpFail
            /\ UNCHANGED <<cpRows, overrideCache, bgTasks>>
       ELSE LET stored == [cpOp EXCEPT !.persisted = TRUE]
                returned == [stored EXCEPT !.pc = "done", !.success = TRUE]
            IN  CASE cpOp.kind = "create" ->
                       /\ cpRows' = [n \in DOMAIN cpRows \cup {cpOp.ns} |->
                                        IF n = cpOp.ns THEN <<cpOp.caller>> ELSE cpRows[n]]
                       /\ bgTasks' = Launch({"ensureIdleServerForNewNamespace"})
                       /\ cpOp' = [returned EXCEPT !.triggered =
                                      {"ensureIdleServerForNewNamespace"}]
                       /\ UNCHANGED overrideCache
                  [] cpOp.kind = "update" ->
                       /\ bgTasks' = Launch({"invalidateIdleServer",
                                             "invalidateOpenApiSessions"})
                       /\ clearOverrideCache(cpOp.ns)
                       /\ cpOp' = [returned EXCEPT !.triggered =
                                      {"invalidateIdleServer", "invalidateOpenApiSessions"}]
                       /\ UNCHANGED cpRows
                  [] cpOp.kind = "delete" ->
                       /\ cpRows' = [n \in DOMAIN cpRows \ {cpOp.ns} |-> cpRows[n]]
                       /\ cpOp' = [stored EXCEPT !.pc = "cleanup",
                                      !.triggered = {"cleanupIdleServer"}]
                       /\ UNCHANGED <<overrideCache, bgTasks>>
                  [] cpOp.kind = "updateServerStatus" ->
                       /\ bgTasks' = Launch({"invalidateIdleServer",
                                             "invalidateOpenApiSessions"})
                       /\ cpOp' = [returned EXCEPT !.triggered =
                                      {"invalidateIdleServer", "invalidateOpenApiSessions"}]
                       /\ UNCHANGED <<cpRows, overrideCache>>
                  [] cpOp.kind = "updateToolStatus" ->
                       /\ cpOp' = returned
                       /\ UNCHANGED <<cpRows, overrideCache, bgTasks>>
                  [] cpOp.kind = "updateToolOverrides" ->
                       /\ clearOverrideCache(cpOp.ns)
                       /\ cpOp' = returned
                       /\ UNCHANGED <<cpRows, bgTasks>>
                  [] cpOp.kind = "refreshTools" ->
                       /\ bgTasks' = Launch({"invalidateIdleServer",
                                             "invalidateOpenApiSessions"})
                       /\ cpOp' = [returned EXCEPT !.triggered =
                                      {"invalidateIdleServer", "invalidateOpenApiSessions"}]
                       /\ UNCHANGED <<cpRows, overrideCache>>

CpCleanedMutPropagates(ok) ==
    /\ cpOp.pc = "cleanup"
    /\ IF ok
       THEN /\ clearOverrideCache(cpOp.ns)
            /\ cpOp' = [cpOp EXCEPT !.pc = "done", !.success = TRUE]
       ELSE /\ cpOp' = [CpFail EXCEPT !.failed = {"cleanupIdleServer"}]
            /\ UNCHANGED overrideCache
    /\ UNCHANGED <<cpRows, bgTasks>>

\* delete: the awaited cleanupIdleServer has settled; a failure is logged.
CpCleaned(ok) ==
    /\ cpOp.pc = "cleanup"
    /\ clearOverrideCache(cpOp.ns)
    /\ cpOp' = [cpOp EXCEPT !.pc = "done", !.success = TRUE,
                   !.failed = IF ok THEN @ ELSE @ \cup {"cleanupIdleServer"}]
    /\ UNCHANGED <<cpRows, bgTasks>>

\* A pool call launched by a procedure settles; a rejection is logged by the
\* catch handler chained to it.
BgSettle(task, ok) ==
    /\ task \in bgTasks
    /\ bgTasks' = bgTasks \ {task}
    /\ cpOp' = IF ~ok /\ cpOp.pc = "done" /\ cpOp.ns = task.ns
               THEN [cpOp EXCEPT !.failed = @ \cup {task.kind}]
               ELSE cpOp
    /\ UNCHANGED <<cpRows, overrideCache>>

\* The response has gone back to the caller.
CpReturn ==
    /\ cpOp.pc = "done"
    /\ cpOp' = IdleCpOp
    /\ UNCHANGED <<cpRows, overrideCache, bgTasks>>

CpNext ==
    \/ \E k \in CpKinds, n \in NamespaceUuids, u \in CpCallers,
          tools \in RefreshInputs \cup {""} : CpBegin(k, n, u, tools)
    \/ CpLooked
    \/ \E ok \in BOOLEAN : CpParsed(ok)
    \/ CpServers
    \/ \E ok \in BOOLEAN, found \in BOOLEAN : CpWrote(ok, found)
    \/ \E ok \in BOOLEAN : CpCleaned(ok)
    \/ \E task \in bgTasks, ok \in BOOLEAN : BgSettle(task, ok)
    \/ CpReturn
    \/ \E n \in NamespaceUuids : OverrideLookup(n)

(***************************************************************************)
(* The ask agents of a namespace                                            *)
(***************************************************************************)
\* Number of agent rows the store may hold for the namespace.
MaxAgents == 3

AgentUuids == 1..MaxAgents

VARIABLES
    agentRows,     \* uuids of the namespace_agents rows of the namespace (type "ask")
    nsAskAgent,    \* namespaces.ask_agent_uuid: <<>> or <<uuid>>
    pick           \* the agent lookup of a metamcp__ask call in progress

agVars == <<agentRows, nsAskAgent, pick>>

IdlePick == [pc |-> "idle", ref |-> <<>>, agent |-> <<>>]

AgInit ==
    /\ agentRows = {}
    /\ nsAskAgent = <<>>
    /\ pick = IdlePick

FreeAgentUuid == CHOOSE u \in AgentUuids : u \notin agentRows

\* createAgent by the owner of the namespace.
createAgent(userId) ==
    /\ userId = AgentOwner
    /\ agentRows # AgentUuids
    /\ agentRows' = agentRows \cup {FreeAgentUuid}
    /\ UNCHANGED <<nsAskAgent, pick>>

\* deleteAgent by the owner: the selection is cleared when it is this agent.
deleteAgent(agentUuid, userId) ==
    /\ agentUuid \in agentRows
    /\ userId = AgentOwner
    /\ nsAskAgent' = IF nsAskAgent = <<agentUuid>> THEN <<>> ELSE nsAskAgent
    /\ agentRows' = agentRows \ {agentUuid}
    /\ UNCHANGED pick

\* setActiveAskAgent by the owner, with an agent of the namespace or none.
setActiveAskAgent(agentUuid, userId) ==
    /\ userId = AgentOwner
    /\ agentUuid # <<>> => agentUuid[1] \in agentRows
    /\ nsAskAgent' = agentUuid
    /\ UNCHANGED <<agentRows, pick>>

\* metamcp__ask with an API key: the namespace row is asked for ask_agent_uuid.
AskPickBegin ==
    /\ pick.pc = "idle"
    /\ pick' = [IdlePick EXCEPT !.pc = "ns_read"]
    /\ UNCHANGED <<agentRows, nsAskAgent>>

\* The row arrives: getByUuid of the selected agent, or the first ask agent.
AskNsRead ==
    /\ pick.pc = "ns_read"
    /\ pick' = [pick EXCEPT !.ref = nsAskAgent,
                   !.pc = IF nsAskAgent # <<>> THEN "get_by_uuid" ELSE "get_first"]
    /\ UNCHANGED <<agentRows, nsAskAgent>>

AskGotByUuid ==
    /\ pick.pc = "get_by_uuid"
    /\ pick' = IF pick.ref[1] \in agentRows
               THEN [pick EXCEPT !.agent = pick.ref, !.pc = "docs"]
               ELSE [pick EXCEPT !.pc = "get_first"]
    /\ UNCHANGED <<agentRows, nsAskAgent>>

\* getFirstByNamespaceAndType answers: an agent, or none and create is called.
AskGotFirst ==
    /\ pick.pc = "get_first"
    /\ pick' = IF agentRows # {}
               THEN [pick EXCEPT !.agent = <<CHOOSE u \in agentRows :
                                                \A v \in agentRows : u <= v>>,
                                 !.pc = "docs"]
               ELSE [pick EXCEPT !.pc = "create"]
    /\ UNCHANGED <<agentRows, nsAskAgent>>

\* namespaceAgentsRepository.create stores the "Default Ask Agent".
AskCreatedDefault ==
    /\ pick.pc = "create"
    /\ agentRows # AgentUuids
    /\ agentRows' = agentRows \cup {FreeAgentUuid}
    /\ pick' = [pick EXCEPT !.agent = <<FreeAgentUuid>>, !.pc = "docs"]
    /\ UNCHANGED nsAskAgent

\* listByAgent answers and the agent runs.
AskDocsListed ==
    /\ pick.pc = "docs"
    /\ pick' = IdlePick
    /\ UNCHANGED <<agentRows, nsAskAgent>>

AgNext ==
    \/ \E u \in Users : createAgent(u)
    \/ \E a \in AgentUuids, u \in Users : deleteAgent(a, u)
    \/ \E a \in {<<>>} \cup { <<x>> : x \in AgentUuids }, u \in Users : setActiveAskAgent(a, u)
    \/ AskPickBegin
    \/ AskNsRead
    \/ AskGotByUuid
    \/ AskGotFirst
    \/ AskCreatedDefault
    \/ AskDocsListed

(***************************************************************************)
(* Embedding provider: the lazily loaded model                             *)
(***************************************************************************)
EpCallers == {"g1", "g2", "g3"}

MaxLoads == 2

VARIABLES
    extractor,        \* TRUE once this.extractor holds the pipeline
    loadingPromise,   \* 0 for null, else the number of the loading promise
    loads,            \* loads[p]: "pending", "resolved" or "rejected"
    gen               \* per caller of generateEmbedding: position and awaited promise

epVars == <<extractor, loadingPromise, loads, gen>>

IdleGen == [pc |-> "idle", promise |-> 0]

EpInit ==
    /\ extractor = FALSE
    /\ loadingPromise = 0
    /\ loads = <<>>
    /\ gen = [c \in EpCallers |-> IdleGen]

getExtractorMutNoSharedPromise(c) ==
    /\ gen[c].pc = "idle"
    /\ IF extractor
       THEN /\ gen' = [gen EXCEPT ![c] = [pc |-> "infer", promise |-> 0]]
            /\ UNCHANGED <<extractor, loadingPromise, loads>>
       ELSE /\ Len(loads) < MaxLoads
            /\ loads' = Append(loads, "pending")
            /\ loadingPromise' = Len(loads) + 1
            /\ gen' = [gen EXCEPT ![c] = [pc |-> "awaitLoad", promise |-> Len(loads) + 1]]
            /\ UNCHANGED extractor

\* generateEmbedding up to its first await: getExtractor returns the extractor,
\* the loading promise, or starts the load and stores its promise.
getExtractor(c) ==
    /\ gen[c].pc = "idle"
    /\ IF extractor
       THEN /\ gen' = [gen EXCEPT ![c] = [pc |-> "infer", promise |-> 0]]
            /\ UNCHANGED <<extractor, loadingPromise, loads>>
       ELSE IF loadingPromise # 0
       THEN /\ gen' = [gen EXCEPT ![c] = [pc |-> "awaitLoad", promise |-> loadingPromise]]
            /\ UNCHANGED <<extractor, loadingPromise, loads>>
       ELSE /\ Len(loads) < MaxLoads
            /\ loads' = Append(loads, "pending")
            /\ loadingPromise' = Len(loads) + 1
            /\ gen' = [gen EXCEPT ![c] = [pc |-> "awaitLoad", promise |-> Len(loads) + 1]]
            /\ UNCHANGED extractor

\* pipeline(...) settles: the extractor is stored, or the catch block resets
\* the loading promise and rethrows.
PipelineSettled(p, ok) ==
    /\ p \in DOMAIN loads
    /\ loads[p] = "pending"
    /\ IF ok
       THEN /\ extractor' = TRUE
            /\ loads' = [loads EXCEPT ![p] = "resolved"]
            /\ UNCHANGED loadingPromise
       ELSE /\ loadingPromise' = 0
            /\ loads' = [loads EXCEPT ![p] = "rejected"]
            /\ UNCHANGED extractor
    /\ UNCHANGED gen

\* The await of getExtractor() in generateEmbedding continues.
ExtractorAwaited(c) ==
    /\ gen[c].pc = "awaitLoad"
    /\ loads[gen[c].promise] # "pending"
    /\ gen' = [gen EXCEPT ![c].pc =
                   IF loads[gen[c].promise] = "resolved" THEN "infer" ELSE "failed"]
    /\ UNCHANGED <<extractor, loadingPromise, loads>>

\* The extractor call returns the vector or throws.
Inferred(c, ok) ==
    /\ gen[c].pc = "infer"
    /\ gen' = [gen EXCEPT ![c].pc = IF ok THEN "done" ELSE "failed"]
    /\ UNCHANGED <<extractor, loadingPromise, loads>>

GenReturn(c) ==
    /\ gen[c].pc \in {"done", "failed"}
    /\ gen' = [gen EXCEPT ![c] = IdleGen]
    /\ UNCHANGED <<extractor, loadingPromise, loads>>

EpNext ==
    \/ \E c \in EpCallers : getExtractor(c)
    \/ \E p \in DOMAIN loads, ok \in BOOLEAN : PipelineSettled(p, ok)
    \/ \E c \in EpCallers : ExtractorAwaited(c)
    \/ \E c \in EpCallers, ok \in BOOLEAN : Inferred(c, ok)
    \/ \E c \in EpCallers : GenReturn(c)

(***************************************************************************)
(* refreshTools: the Tool rows and the memberships of one namespace        *)
(***************************************************************************)
\* Full names a downstream client can send, as tuples of their `__` segments.
RefreshNames ==
    { <<"alpha", "read">>, <<"alpha", "renamed">>, <<"solo">>,
      <<"alpha", "child", "tool">>, <<"ghost", "tool">> }

\* Names of the servers of the namespace.
RfServers == {"alpha"}

\* The longest payload of a call.
MaxPayload == 2

RefreshPayloads == {tools \in SUBSET RefreshNames : Cardinality(tools) <= MaxPayload}

OverrideNames == {<<>>, <<"renamed">>}

VARIABLES
    toolRows,      \* Tool rows: [server, name], one per (server, name)
    mappingRows,   \* memberships of the namespace: [server, name, status, overrideName]
    rf             \* the pair of refreshTools calls under observation

rfVars == <<toolRows, mappingRows, rf>>

IdleRf ==
    [runs |-> 0, payload |-> {}, success |-> <<>>,
     thrown |-> FALSE, persisted |-> {}, once |-> [tools |-> {}, active |-> {}]]

RfInit ==
    /\ toolRows = {}
    /\ mappingRows = {}
    /\ rf = IdleRf

RowKey(row) == <<row.server, row.name>>

\* What the claim compares: the Tool keys and the ACTIVE memberships.
RowSets ==
    [tools |-> {RowKey(r) : r \in toolRows},
     active |-> {RowKey(m) : m \in {x \in mappingRows : x.status = "ACTIVE"}}]

\* The shared parser: null without a separator, else the server part and the
\* tool name after the last separator.
ParseShared(fullName) ==
    IF Len(fullName) < 2 THEN <<>>
    ELSE <<[serverName |-> SubSeq(fullName, 1, Len(fullName) - 1),
            originalToolName |-> <<fullName[Len(fullName)]>>]>>

\* The value of mapOverrideNameToOriginal: the original full name when the
\* name is the override name of a membership of the namespace, else the name.
OriginalNameOf(fullName) ==
    LET parsed == ParseShared(fullName)
        hits == IF parsed = <<>> THEN {}
                ELSE {m \in mappingRows :
                          /\ <<m.server>> = parsed[1].serverName
                          /\ m.overrideName = parsed[1].originalToolName}
    IN  IF hits = {} THEN fullName
        ELSE LET m == CHOOSE x \in hits : TRUE IN <<m.server>> \o m.name

\* The parse loop: entries without separator are skipped, entries the lookup
\* maps to another name are skipped, entries whose lookup throws are kept.
ParsedTools(tools, thrown) ==
    {name \in tools :
        /\ ParseShared(name) # <<>>
        /\ (name \in thrown \/ OriginalNameOf(name) = name)}

\* The server of a parsed entry and the tool name stored for it; the nested
\* fallback takes the part before the first separator as the server.
ResolveServer(fullName) ==
    LET parsed == ParseShared(fullName)[1]
    IN  IF Len(parsed.serverName) = 1 /\ parsed.serverName[1] \in RfServers
        THEN <<[server |-> parsed.serverName[1], name |-> parsed.originalToolName]>>
        ELSE IF Len(parsed.serverName) > 1 /\ parsed.serverName[1] \in RfServers
        THEN <<[server |-> parsed.serverName[1],
                name |-> Tail(parsed.serverName) \o parsed.originalToolName]>>
        ELSE <<>>

\* toolsRepository.bulkUpsert: one row per (server, name).
bulkUpsert(rows, keys) ==
    {r \in rows : RowKey(r) \notin keys}
        \cup {[server |-> k[1], name |-> k[2]] : k \in keys}

\* bulkUpsertNamespaceToolMappings: the membership of each tool is set ACTIVE;
\* a new membership has no override.
bulkUpsertNamespaceToolMappings(rows, keys) ==
    {m \in rows : RowKey(m) \notin keys}
        \cup {[m EXCEPT !.status = "ACTIVE"] : m \in {x \in rows : RowKey(x) \in keys}}
        \cup {[server |-> k[1], name |-> k[2], status |-> "ACTIVE", overrideName |-> <<>>] :
                 k \in {x \in keys : \A m \in rows : RowKey(m) # x}}

\* One call of refreshTools from the parse loop to its return. thrown: the
\* entries whose override lookup throws; wrote: how far the repository calls
\* got before one threw ("both": none threw).
refreshTools(tools, thrown, wrote) ==
    LET kept == {name \in ParsedTools(tools, thrown) : ResolveServer(name) # <<>>}
        keys == {<<ResolveServer(name)[1].server, ResolveServer(name)[1].name>> :
                     name \in kept}
        early == tools = {} \/ ParsedTools(tools, thrown) = {}
        stage == IF early \/ keys = {} THEN "none" ELSE wrote
    IN  /\ toolRows' = IF stage = "none" THEN toolRows
                       ELSE bulkUpsert(toolRows, keys)
        /\ mappingRows' = IF stage = "both"
                          THEN bulkUpsertNamespaceToolMappings(mappingRows, keys)
                          ELSE mappingRows
        /\ rf' = [rf EXCEPT
                     !.runs = @ + 1,
                     !.payload = tools,
                     !.success = Append(@, early \/ (keys # {} /\ wrote = "both")),
                     !.thrown = @ \/ thrown # {},
                     !.persisted = @ \cup (IF stage = "none" THEN {} ELSE kept),
                     !.once = IF rf.runs = 0
                              THEN [tools |-> {RowKey(r) : r \in toolRows'},
                                    active |-> {RowKey(m) :
                                        m \in {x \in mappingRows' : x.status = "ACTIVE"}}]
                              ELSE @]

RefreshFirst(tools, thrown, wrote) ==
    /\ rf.runs = 0
    /\ refreshTools(tools, thrown, wrote)

\* The same payload is applied a second time.
RefreshAgain(thrown, wrote) ==
    /\ rf.runs = 1
    /\ refreshTools(rf.payload, thrown, wrote)

RefreshObserved ==
    /\ rf.runs = 2
    /\ rf' = IdleRf
    /\ UNCHANGED <<toolRows, mappingRows>>

\* updateToolStatus, between two observed pairs of calls.
RfUpdateToolStatus(key, status) ==
    /\ rf.runs = 0
    /\ \E m \in mappingRows : RowKey(m) = key
    /\ mappingRows' = {IF RowKey(m) = key THEN [m EXCEPT !.status = status] ELSE m :
                          m \in mappingRows}
    /\ UNCHANGED <<toolRows, rf>>

\* updateToolOverrides, between two observed pairs of calls; an override name
\* is unique in the namespace.
RfUpdateToolOverrides(key, overrideName) ==
    /\ rf.runs = 0
    /\ \E m \in mappingRows : RowKey(m) = key
    /\ overrideName # <<>> =>
           \A m \in mappingRows : RowKey(m) # key => m.overrideName # overrideName
    /\ mappingRows' = {IF RowKey(m) = key THEN [m EXCEPT !.overrideName = overrideName]
                       ELSE m : m \in mappingRows}
    /\ UNCHANGED <<toolRows, rf>>

RfKeys == {<<"alpha", <<"read">>>>, <<"alpha", <<"renamed">>>>, <<"alpha", <<"child", "tool">>>>}

RfNext ==
    \/ \E tools \in RefreshPayloads, wrote \in {"none", "tools", "both"} :
            \E thrown \in SUBSET tools : RefreshFirst(tools, thrown, wrote)
    \/ \E wrote \in {"none", "tools", "both"} :
            \E thrown \in SUBSET rf.payload : RefreshAgain(thrown, wrote)
    \/ RefreshObserved
    \/ \E key \in RfKeys, status \in {"ACTIVE", "INACTIVE"} : RfUpdateToolStatus(key, status)
    \/ \E key \in RfKeys, o \in OverrideNames : RfUpdateToolOverrides(key, o)

(***************************************************************************)
(* Specifications                                                          *)
(***************************************************************************)
vars == <<regVars, sdVars, askVars, docVars, ownVars, ixVars, cpVars, agVars, clrVars, epVars, rfVars>>

Init == RegInit /\ SdInit /\ AskInit /\ DocInit /\ OwnInit /\ IxInit /\ CpInit /\ AgInit /\ ClrInit /\ EpInit /\ RfInit

SpecRegistry ==
    Init /\ [][RegNext /\ UNCHANGED <<sdVars, askVars, docVars, ownVars, ixVars, cpVars, agVars, clrVars, epVars, rfVars>>]_vars

SpecDiscovery ==
    Init /\ [][SdNext /\ UNCHANGED <<regVars, askVars, docVars, ownVars, ixVars, cpVars, agVars, clrVars, epVars, rfVars>>]_vars

\* The state after a list_tools on the enabled namespace has indexed its tools.
IndexedInit == RegInit /\ RaceInit /\ AskInit /\ DocInit /\ OwnInit /\ IxInit /\ CpInit /\ AgInit /\ ClrInit /\ EpInit /\ RfInit

SpecFindRace ==
    IndexedInit /\ [][RaceNext /\ UNCHANGED <<regVars, askVars, docVars, ownVars, ixVars, cpVars, agVars, clrVars, epVars, rfVars>>]_vars

SpecAsk == IndexedInit /\ [][AskNext /\ UNCHANGED <<regVars, docVars, ownVars, ixVars, cpVars, agVars, clrVars, epVars, rfVars>>]_vars

SpecDocs ==
    Init /\ [][DocNext /\ UNCHANGED <<regVars, sdVars, askVars, ownVars, ixVars, cpVars, agVars, clrVars, epVars, rfVars>>]_vars

SpecIndex ==
    Init /\ [][IxNext /\ UNCHANGED <<regVars, askVars, docVars, ownVars, cpVars, agVars, clrVars, epVars, rfVars>>]_vars

SpecRerun ==
    Init /\ [][RerunNext /\ UNCHANGED <<regVars, askVars, docVars, ownVars, cpVars, agVars, clrVars, epVars, rfVars>>]_vars

\* The control plane working on one namespace while a session lists its tools
\* and the embeddings of the indexing arrive or fail.
BackgroundNext ==
    \/ /\ \/ \E k \in PoolCallers :
                CpBegin(k, CtxNamespace, "u1", IF k = "refreshTools" THEN "valid" ELSE "")
          \/ CpLooked
          \/ CpParsed(TRUE)
          \/ CpServers
          \/ \E ok \in BOOLEAN : CpWrote(ok, TRUE)
          \/ \E ok \in BOOLEAN : CpCleaned(ok)
          \/ \E task \in bgTasks, ok \in BOOLEAN : BgSettle(task, ok)
          \/ CpReturn
       /\ UNCHANGED sdVars
    \/ /\ \/ ListStep("r1")
          \/ StatusDbRead("r1")
          \/ \E task \in inflight, ok \in BOOLEAN : EmbedDone(task, ok)
          \/ Respond("r1")
       /\ UNCHANGED cpVars

SpecBackground ==
    Init /\ [][BackgroundNext /\ UNCHANGED <<regVars, askVars, docVars, ownVars, ixVars, agVars, clrVars, epVars, rfVars>>]_vars

\* The transport registers the downstream session at its handshake ...
SessionConnect(endpointName, transport) ==
    /\ CtxSession \notin DOMAIN connections
    /\ addConnection(CtxSession, endpointName, CtxNamespace, transport)
    /\ UNCHANGED sdVars

\* ... and removes it from the registry when the session disconnects.
SessionDisconnect ==
    /\ CtxSession \in DOMAIN connections
    /\ req["r1"].kind = "idle"
    /\ removeConnection(CtxSession)
    /\ UNCHANGED sdVars

\* A downstream session that connects, is served find and list_tools while it
\* is connected, disconnects, and connects again under the same id.
SessionNext ==
    \/ \E e \in EndpointNames, tr \in TransportTypes : SessionConnect(e, tr)
    \/ SessionDisconnect
    \/ /\ CtxSession \in DOMAIN connections
       /\ \/ FindStep("r1")
          \/ ListStep("r1")
          \/ StatusDbRead("r1")
          \/ Respond("r1")
          \/ StatusExpires
       /\ UNCHANGED regVars

SpecSession ==
    IndexedInit /\ [][SessionNext /\ UNCHANGED <<askVars, docVars, ownVars, ixVars, cpVars, agVars, clrVars, epVars, rfVars>>]_vars

\* The namespace's index is cleared (an update that gives smartDiscoveryEnabled)
\* while the upstream servers report the short list.
LiveClear ==
    /\ cacheClears < MaxCacheClears
    /\ toolList = IxListOther
    /\ clearSmartDiscoveryCache
    /\ UNCHANGED <<sdNamespaceVars, sessionVars, cacheObj, pendingIndexing, indexRest,
                   inflight, req, upd, lastFind>>

\* The upstream servers report the short list, or the long one as long as the
\* index was never cleared.
LiveUpstream ==
    /\ \E l \in {IxListOther} \cup (IF cacheClears = 0 THEN {IxListLong} ELSE {}) :
           l # toolList /\ toolList' = l
    /\ UNCHANGED <<nsEnabled, nsPinned, statusCache, sessionVars, indexVars, req, upd,
                   cacheClears, lastFind>>

\* An embedding awaited by the indexing arrives.
LiveEmbed ==
    /\ \E task \in inflight : EmbedDone(task, TRUE)
    /\ UNCHANGED <<regVars, askVars, docVars, ownVars, ixVars, cpVars, agVars, clrVars, epVars, rfVars>>

\* list_tools of one session while the tool list changes, the embeddings of the
\* background indexing arrive and the index is cleared.
LiveNext ==
    \/ ListStep("r1")
    \/ StatusDbRead("r1")
    \/ Respond("r1")
    \/ \E task \in inflight : EmbedDone(task, TRUE)
    \/ LiveUpstream
    \/ LiveClear

\* Every embedding that is awaited arrives in the end.
SpecLive ==
    /\ IndexedInit
    /\ [][LiveNext /\ UNCHANGED <<regVars, askVars, docVars, ownVars, ixVars, cpVars, agVars, clrVars, epVars, rfVars>>]_vars
    /\ WF_vars(LiveEmbed)

SpecControlPlane ==
    Init /\ [][CpNext /\ UNCHANGED <<regVars, sdVars, askVars, docVars, ownVars, ixVars, agVars, clrVars, epVars, rfVars>>]_vars

SpecAgents ==
    Init /\ [][AgNext /\ UNCHANGED <<regVars, sdVars, askVars, docVars, ownVars, ixVars, cpVars, clrVars, epVars, rfVars>>]_vars

SpecNamespaces ==
    Init /\ [][OwnNext /\ UNCHANGED <<regVars, sdVars, askVars, docVars, ixVars, cpVars, agVars, clrVars, epVars, rfVars>>]_vars

SpecClear ==
    IndexedInit /\ [][ClrNext /\ UNCHANGED <<regVars, askVars, docVars, ownVars, cpVars, agVars, epVars, rfVars>>]_vars

SpecEmbedding ==
    Init /\ [][EpNext /\ UNCHANGED <<regVars, sdVars, askVars, docVars, ownVars, ixVars, cpVars, agVars, clrVars, rfVars>>]_vars

SpecRefresh ==
    Init /\ [][RfNext /\ UNCHANGED <<regVars, sdVars, askVars, docVars, ownVars, ixVars, cpVars, agVars, clrVars, epVars>>]_vars

(***************************************************************************)
(* Live Session Registry: properties                                       *)
(***************************************************************************)
\* C1: after any sequence of add, remove and clear, stats() has
\* total = byTransport.SSE + byTransport.StreamableHTTP = sum of byEndpoint counts.
C1_StatsTotalsAgree ==
    LET stats == getStats
    IN  /\ stats.total = stats.byTransport.SSE + stats.byTransport.StreamableHTTP
        /\ stats.total = SeqSum([i \in 1..Len(stats.byEndpoint) |->
                                    stats.byEndpoint[i].count])

\* A remove of a registered session has left two sessions on two endpoints.
C1_Witness ==
    /\ regLast.op = "remove" /\ regLast.known
    /\ getStats.total = 2
    /\ Len(getStats.byEndpoint) = 2

(***************************************************************************)
(* Smart Discovery: properties                                             *)
(***************************************************************************)
ListedWhenEnabled(r) == req[r].kind = "list" /\ req[r].pc = "done" /\ req[r].enabled

\* C2: the list_tools that follows a find on the session lists by name exactly
\* the synthetic tools, the pinned tools and the tools the find returned (as far
\* as the next handler still offers them); tools of an earlier find are gone.
C2_ListShowsLatestFindOnly ==
    \A r \in Requests :
        (ListedWhenEnabled(r) /\ req[r].expect # <<>>) =>
            SeqRange(req[r].out.names) =
                SyntheticNames
                \cup ((req[r].pinnedRead \cup req[r].expect[1]) \cap SeqNames(req[r].resp))

\* C9: with Smart Discovery enabled list_tools answers ask, find, then the pinned
\* tools, then the discovered tools that are not pinned, and no name twice.
C9_SyntheticPinnedDiscovered ==
    \A r \in Requests :
        ListedWhenEnabled(r) =>
            LET names == req[r].out.names
                offered == SeqNames(req[r].resp)
                pinned == req[r].pinnedRead \cap offered
                discovered == (req[r].discovered \cap offered) \ pinned
            IN  /\ Len(names) >= 2
                /\ names[1] = AskName /\ names[2] = FindName
                /\ \A i, j \in 1..Len(names) : i # j => names[i] # names[j]
                /\ Len(names) = 2 + Cardinality(pinned \ SyntheticNames)
                                  + Cardinality(discovered \ SyntheticNames)
                /\ \A i \in 3..Len(names) :
                      IF i <= 2 + Cardinality(pinned \ SyntheticNames)
                      THEN names[i] \in pinned
                      ELSE names[i] \in discovered

\* A list with a tool that is pinned and discovered and one that is only discovered.
C9_Witness ==
    \E r \in Requests :
        /\ ListedWhenEnabled(r)
        /\ AlphaRead \in req[r].pinnedRead \cap req[r].discovered
        /\ req[r].out.names = <<AskName, FindName, AlphaRead, AlphaWrite>>

SearchedFind(r) ==
    /\ req[r].kind = "find" /\ req[r].pc = "done"
    /\ req[r].out.kind \in {"found", "no_tools"}

\* C10: when two concurrent finds of a session have both returned, the exposed
\* set is the result set of one of them.
C10_LastWriterWins ==
    (SearchedFind("r1") /\ SearchedFind("r2")
        /\ req["r1"].concurrent /\ req["r2"].concurrent) =>
        getDiscoveredToolNames(CtxSession, CtxNamespace) \in
            { SeqRange(req["r1"].out.names), SeqRange(req["r2"].out.names) }

\* The state Smart Discovery keeps: status cache, exposure table, index.
SmartDiscoveryState == <<statusCache, sessionVars, indexVars>>

PassThroughStep(r) ==
    /\ req'[r] # req[r]
    /\ req[r].kind = "call" \/ req'[r].kind = "call"

\* C11: a call_tool of a non-synthetic name is forwarded exactly once, unchanged,
\* to the next handler, its result is returned unchanged, and no step of the
\* call touches the Smart-Discovery state, enabled or not, exposed or not.
C11_PassThrough ==
    [][\A r \in Requests :
          PassThroughStep(r) =>
              /\ UNCHANGED SmartDiscoveryState
              /\ (req'[r].kind = "call" /\ req'[r].pc = "done") =>
                    /\ req'[r].forwarded = req'[r].call
                    /\ req'[r].returned # <<>>
                    /\ req'[r].returned = req'[r].handlerResult]_vars

\* Smart Discovery is enabled, alpha__read is not exposed to the session, and
\* the call of alpha__read has been answered by the next handler.
C11_Witness ==
    \E r \in Requests :
        /\ req[r].kind = "call" /\ req[r].pc = "done"
        /\ req[r].call[1].name = AlphaRead
        /\ statusCache = <<TRUE>>
        /\ AlphaRead \notin getDiscoveredToolNames(CtxSession, CtxNamespace)
        /\ req[r].returned = <<"result2">>

SearchCalled(r) == req[r].kind = "find" /\ req[r].searchLimit # <<>>

\* C12: the limit metamcp__find passes to the search lies in 1..20, whatever
\* number the limit argument is, and is 5 when the argument is absent.
C12_FindLimitClamped ==
    \A r \in Requests :
        SearchCalled(r) =>
            /\ req[r].searchLimit[1] \in 1..20
            /\ req[r].limit = <<>> => req[r].searchLimit[1] = 5

(***************************************************************************)
(* Ask-Agent: properties                                                   *)
(***************************************************************************)
\* C3: the upstream executor is invoked only with names that are not synthetic,
\* not in denied_tools, and in allowed_tools unless allowed_tools is empty.
C3_ExecutorOnlyAllowedNames ==
    \A i \in 1..Len(execLog) :
        /\ execLog[i] \notin {<<"metamcp", "find">>, <<"metamcp", "ask">>}
        /\ execLog[i] \notin SeqRange(ask.deniedTools)
        /\ ask.allowedTools = <<>> \/ execLog[i] \in SeqRange(ask.allowedTools)

\* A finished run that executed alpha__write and refused alpha__read, which is
\* both in allowed_tools and in denied_tools.
C3_Witness ==
    /\ ask.pc = "done" /\ ask.result.kind = "ok"
    /\ execLog = <<AlphaWrite>>
    /\ AlphaRead \in SeqRange(ask.allowedTools) \cap SeqRange(ask.deniedTools)
    /\ Len(ask.result.toolCallsExecuted) = 3
    /\ ask.result.toolCallsExecuted[3] = Executed(AlphaRead, FALSE, "not_allowed")

\* C4: a run that short-circuits (agent disabled, or token total above 200000)
\* issues no LLM call, invokes the executor zero times, returns empty
\* toolCallsExecuted and exposedTools and leaves the exposed set as it was; a
\* total above 200000 short-circuits and a total of exactly 200000 does not.
C4_ShortCircuitDoesNothing ==
    /\ ask.result.kind \in {"disabled", "over_budget"} =>
          /\ llmCalls = 0
          /\ execLog = <<>>
          /\ ask.result.toolCallsExecuted = <<>>
          /\ ask.result.exposedTools = <<>>
          /\ getDiscoveredToolNames(CtxSession, CtxNamespace) = ask.exposedBefore
    /\ (ask.total # <<>> /\ ask.total[1] > 200000) => ask.result.kind = "over_budget"
    /\ ask.total = <<200000>> => (ask.result.kind # "over_budget" /\ llmCalls >= 1)

\* A run over budget by one token, on a session that has tools exposed.
C4_Witness ==
    /\ ask.pc = "done" /\ ask.result.kind = "over_budget"
    /\ ask.total = <<200001>>
    /\ ask.exposedBefore # {}

\* C5: toolCallsExecuted and the executor invocations number at most
\* max(0, min(maxToolCalls, 20)), whatever the plan proposes.
C5_ToolCallsCapped ==
    LET m == ask.rawMaxToolCalls
        cap == IF m < 0 THEN 0 ELSE IF m > 20 THEN 20 ELSE m
    IN  ask.pc \notin {"idle", "search"} =>
          /\ Len(ask.toolCallsExecuted) <= cap
          /\ Len(ask.result.toolCallsExecuted) <= cap
          /\ Len(execLog) <= cap

\* A plan of more than 20 calls under maxToolCalls = 21: 20 calls are executed.
C5_Witness ==
    /\ ask.pc = "done" /\ ask.result.kind = "ok"
    /\ ask.rawMaxToolCalls = 21
    /\ Len(ask.plan[1].toolCalls) > 20
    /\ Len(ask.result.toolCallsExecuted) = 20
    /\ Len(execLog) = 20

(***************************************************************************)
(* Agent documents: properties                                             *)
(***************************************************************************)
\* C6: in every reachable state, under every interleaving of uploads and
\* deletes, the token_count of the agent's stored documents sums to at most 200000.
C6_DocTokensWithinBudget == SumTokenCount(docs) <= 200000

UploadDecided(c) == upl[c].pc = "done" /\ upl[c].userId = AgentOwner

\* C7: an upload whose new tokens plus the existing token_count sum exceed
\* 200000 returns the budget failure and inserts nothing, the documents are
\* those it listed; an upload that brings the sum to 200000 or less succeeds.
C7_OverBudgetUploadRejected ==
    \A c \in Uploads :
        UploadDecided(c) =>
            IF upl[c].existingTokens + upl[c].newTokens > 200000
            THEN /\ upl[c].result = "budget_exceeded"
                 /\ upl[c].docUuid = <<>>
                 /\ upl[c].docsAtReturn = upl[c].docsRead
            ELSE /\ upl[c].result = "success"
                 /\ upl[c].docUuid # <<>>
                 /\ [uuid |-> upl[c].docUuid[1], token_count |-> upl[c].newTokens]
                        \in upl[c].docsAtReturn

\* Documents of 199900 tokens are stored and an upload of 200 tokens is refused,
\* while another upload brought the sum to exactly 200000.
C7_Witness ==
    \E c, x \in Uploads :
        /\ UploadDecided(c) /\ upl[c].result = "budget_exceeded"
        /\ upl[c].existingTokens = 199900 /\ upl[c].newTokens = 200
        /\ UploadDecided(x) /\ upl[x].result = "success"
        /\ upl[x].existingTokens + upl[x].newTokens = 200000

(***************************************************************************)
(* Namespace ownership: properties                                         *)
(***************************************************************************)
\* C8: after any sequence of successful creates and updates, every server that
\* is a member of a public namespace (user_id null) is itself public.
C8_PublicNamespaceOnlyPublicServers ==
    \A n \in DOMAIN nsOwner :
        nsOwner[n] = <<>> =>
            \A s \in nsServers[n] \cap ServerUuids : ServerOwner[s] = <<>>

(***************************************************************************)
(* DiscoveryService.search and indexTools                                  *)
(***************************************************************************)
\* The entries of a Map whose similarity to the query reaches the threshold.
Qualifying(map, query, threshold) ==
    { j \in 1..Len(map) : cosineSimilarity(query, map[j][2].embedding) >= threshold }

\* C13: a finished search on a namespace without index, or with an empty one,
\* returned the empty list and never called the embedding provider; any other
\* finished search returned indexed tools only, each once, each with its
\* similarity to the query, which is at least the threshold, in non-increasing
\* order of score, leaving out no tool that scores higher than a returned one,
\* and, for a limit >= 0, min(limit, number of qualifying tools) of them.
C13_SearchContract ==
    srch.pc = "done" =>
        LET r == srch.result
            map == srch.indexed
            q == Qualifying(map, srch.query, srch.threshold)
        IN  IF srch.emptyAtCall
            THEN r = <<>> /\ srch.embedCalls = 0
            ELSE /\ srch.embedCalls = 1
                 /\ \A i \in 1..Len(r) :
                        \E j \in q : /\ map[j][2].fullToolName = r[i].name
                                     /\ r[i].score = cosineSimilarity(srch.query,
                                                         map[j][2].embedding)
                 /\ \A i, k \in 1..Len(r) : i < k =>
                        /\ r[i].name # r[k].name
                        /\ r[i].score >= r[k].score
                 /\ \A j \in q :
                        \/ \E i \in 1..Len(r) : r[i].name = map[j][2].fullToolName
                        \/ \A i \in 1..Len(r) :
                               r[i].score >= cosineSimilarity(srch.query,
                                                 map[j][2].embedding)
                 /\ srch.limit >= 0 => Len(r) = Min(srch.limit, Cardinality(q))

\* A search that cut three qualifying tools down to two, the second of them
\* scoring exactly the threshold.
C13_Witness ==
    /\ srch.pc = "done"
    /\ Len(srch.indexed) = 3
    /\ srch.threshold = 60
    /\ srch.limit = 2
    /\ Len(srch.result) = 2
    /\ srch.result[2].score = 60

\* C14: every search for the top k of the fixed tool list, made after the list
\* has been indexed completely, returns the list the first such search of any
\* execution returned, in the same order.
C14_SameTopK ==
    (srch.pc = "done" /\ srch.settled /\ firstTopK # <<>>) =>
        srch.result = firstTopK[1]

\* The tools of a list that have no entry in a Map, or one made from another
\* (name, title, description), which is what the content hash is taken of.
NewOrChanged(map, tools) ==
    { t \in SeqRange(tools) :
        \/ ~MapHas(map, t.name)
        \/ LET entry == MapGet(map, t.name)
           IN  <<entry.fullToolName, entry.embedding.title, entry.description>>
                   # <<t.name, t.title, t.description>> }

OpsInFlight(namespaceUuid) == { t.op : t \in { x \in inflight : x.ns = namespaceUuid } }

\* What the service holds for one namespace.
NamespaceIndexState(namespaceUuid) ==
    <<cacheCur[namespaceUuid], NamespaceMap(namespaceUuid),
      pendingIndexing[namespaceUuid], indexRest[namespaceUuid],
      { x \in inflight : x.ns = namespaceUuid }>>

OneOperationPerNamespace ==
    /\ \A n \in NamespaceUuids :
           /\ Cardinality(OpsInFlight(n)) <= 1
           /\ OpsInFlight(n) \subseteq {pendingIndexing[n]}
    /\ \A n, o \in NamespaceUuids :
           (n # o /\ pendingIndexing[n] # 0) => pendingIndexing[n] # pendingIndexing[o]

\* A call made while an operation of its namespace was pending requests no
\* embedding, awaits that operation and is awaiting for as long as it pends.
JoinersShareThePending ==
    \A c \in IxCallers :
        (ixCalls[c].pc # "idle" /\ ~ixCalls[c].own) =>
            /\ ixCalls[c].embedded = {}
            /\ ixCalls[c].op # 0
            /\ (ixCalls[c].pc = "waiting") = (pendingIndexing[ixCalls[c].ns] = ixCalls[c].op)
            /\ \A t \in inflight : t.op = ixCalls[c].op => t.ns = ixCalls[c].ns

\* C16: no namespace ever has embeddings of two indexing operations awaited, a
\* call made while an operation of its namespace is pending requests no
\* embedding and settles in the step in which that operation ends, and no step
\* changes what the service holds for two namespaces.
C16_OneIndexingPerNamespace ==
    /\ [](OneOperationPerNamespace /\ JoinersShareThePending)
    /\ [][\A n, o \in NamespaceUuids :
              (n # o /\ NamespaceIndexState(n)' # NamespaceIndexState(n)) =>
                  NamespaceIndexState(o)' = NamespaceIndexState(o)]_vars

\* A call that joined a pending operation has settled with it, its own list
\* holding tools the operation did not index.
C16_Witness ==
    \E c \in IxCallers :
        /\ ixCalls[c].pc = "done"
        /\ ~ixCalls[c].own
        /\ NewOrChanged(ixCalls[c].after, ixCalls[c].tools) # {}

(***************************************************************************)
(* Ask-Agent: the expose step and the execution loop                       *)
(***************************************************************************)
\* The allow/deny policy of the run, as the agent configuration states it.
PolicyAllows(fullName) ==
    /\ fullName \notin SeqRange(ask.deniedTools)
    /\ ask.allowedTools = <<>> \/ fullName \in SeqRange(ask.allowedTools)

\* C17: the exposedTools of a finished run hold no synthetic name, no name the
\* policy refuses, and at most max(0, min(exposeLimit, 50)) names.
C17_ExposedToolsFiltered ==
    ask.pc = "done" =>
        LET exposedTools == ask.result.exposedTools
        IN  /\ \A i \in 1..Len(exposedTools) :
                   /\ exposedTools[i] \notin {FindName, AskName}
                   /\ PolicyAllows(exposedTools[i])
            /\ Len(exposedTools) <= Max(0, Min(ask.rawExposeLimit, 50))

\* A run asked for 51 names whose report proposed a synthetic name, a denied
\* name and more than 50 allowed ones: 50 were exposed.
C17_Witness ==
    /\ ask.pc = "done"
    /\ ask.result.kind = "ok"
    /\ ask.rawExposeLimit = 51
    /\ ask.deniedTools = <<AlphaRead>>
    /\ ask.report = <<[exposeTools |-> <<LongExpose>>]>>
    /\ Len(ask.result.exposedTools) = 50

\* The names of a list the expose step may expose.
Exposable(names) ==
    { n \in SeqRange(names) : n # NoName /\ n \notin {FindName, AskName} /\ PolicyAllows(n) }

\* C18: when the plan and the report of a finished run both carry an
\* exposeTools list, and the limit leaves room for every exposable name of the
\* two lists, each exposable name of the plan's list is among the exposedTools.
C18_PlanNamesExposed ==
    (/\ ask.pc = "done"
     /\ ask.result.kind = "ok"
     /\ ask.plan[1].exposeTools # <<>>
     /\ ask.report[1].exposeTools # <<>>) =>
        LET planNames == Exposable(ask.plan[1].exposeTools[1])
            reportNames == Exposable(ask.report[1].exposeTools[1])
        IN  Cardinality(planNames \cup reportNames) <= ask.exposeLimit =>
                planNames \subseteq SeqRange(ask.result.exposedTools)

\* C19: when a run that reached the expose step has finished, the exposed set
\* of its session and namespace is the set of the names of its exposedTools.
C19_ExposedSetReplaced ==
    (ask.pc = "done" /\ ask.result.kind = "ok") =>
        getDiscoveredToolNames(CtxSession, CtxNamespace)
            = SeqRange(ask.result.exposedTools)

\* The proposed calls a run selects: those with a name, up to the clamped
\* maxToolCalls.
SelectedCalls ==
    JsSliceFromZero(SeqFilterNamed(ask.plan[1].toolCalls),
                    Max(0, Min(ask.rawMaxToolCalls, 20)))

\* The entry of toolCallsExecuted that belongs to a selected call.
RecordedFor(fullName, entry) ==
    /\ entry.name = fullName
    /\ IF fullName \in {FindName, AskName}
       THEN ~entry.ok /\ entry.why = "recursive"
       ELSE IF ~PolicyAllows(fullName)
       THEN ~entry.ok /\ entry.why = "not_allowed"
       ELSE entry.why = IF entry.ok THEN "output" ELSE "error"

\* C20: once the plan has arrived, the entries of toolCallsExecuted are those
\* of the first selected calls, one each and in plan order, a refused call and
\* a failed one with ok = false; the run goes to the report only with an entry
\* for every selected call, and it ends only after the report was requested.
C20_OneEntryPerSelectedCall ==
    ask.plan # <<>> =>
        /\ Len(ask.toolCallsExecuted) <= Len(SelectedCalls)
        /\ \A i \in 1..Len(ask.toolCallsExecuted) :
               RecordedFor(SelectedCalls[i], ask.toolCallsExecuted[i])
        /\ ask.pc \in {"report", "done"} =>
               /\ Len(ask.toolCallsExecuted) = Len(SelectedCalls)
               /\ llmCalls = 2
        /\ ask.result.kind = "ok" => ask.result.toolCallsExecuted = ask.toolCallsExecuted

\* A finished run in which a call that failed in the executor is followed by a
\* call that was executed.
C20_Witness ==
    /\ ask.pc = "done"
    /\ ask.result.kind = "ok"
    /\ \E i, j \in 1..Len(ask.result.toolCallsExecuted) :
           /\ i < j
           /\ ask.result.toolCallsExecuted[i].why = "error"
           /\ ask.result.toolCallsExecuted[j].ok

(***************************************************************************)
(* Live Session Registry: idempotence and counters                         *)
(***************************************************************************)
RegistryState == <<connections, endpointCounts, transportCounts>>

\* C27: an add whose session id is registered changes neither the stored
\* connections nor the endpoint counters nor the transport counters.
C27_DuplicateAddIsNoOp ==
    [][(regLast'.op = "add" /\ regLast'.sessionId \in DOMAIN connections) =>
           UNCHANGED RegistryState]_vars

\* An add of a registered id was made with another endpoint, namespace and
\* transport than the registered ones.
C27_Witness ==
    /\ regLast.op = "add"
    /\ regLast.known
    /\ connections[regLast.sessionId].endpointName # regLast.info.endpointName
    /\ connections[regLast.sessionId].namespaceUuid # regLast.info.namespaceUuid
    /\ connections[regLast.sessionId].transport # regLast.info.transport

\* C28: a remove whose session id is not registered changes nothing of the
\* registry, and after any remove the session id is not registered, so that a
\* second remove of it is such a remove.
C28_RemoveIsIdempotent ==
    [][regLast'.op = "remove" =>
           /\ regLast'.sessionId \notin DOMAIN connections'
           /\ regLast'.sessionId \notin DOMAIN connections => UNCHANGED RegistryState]_vars

\* A remove of an id that is not registered, with other sessions registered.
C28_Witness ==
    /\ regLast.op = "remove"
    /\ ~regLast.known
    /\ Cardinality(DOMAIN connections) = 2

\* C29: no transport counter is negative, every stored counter of an endpoint
\* and namespace is at least 1, no endpoint is stored with an empty namespace
\* map, and the endpoints stored, like those of the statistics, are those
\* that have a session.
C29_CountersPositive ==
    /\ \A t \in TransportTypes : transportCounts[t] >= 0
    /\ \A i \in 1..Len(endpointCounts) :
           /\ Len(endpointCounts[i][2]) > 0
           /\ \A j \in 1..Len(endpointCounts[i][2]) : endpointCounts[i][2][j][2] >= 1
    /\ MapKeys(endpointCounts) = { connections[s].endpointName : s \in DOMAIN connections }
    /\ { getStats.byEndpoint[i].endpointName : i \in 1..Len(getStats.byEndpoint) }
           = { connections[s].endpointName : s \in DOMAIN connections }

\* The last session of an endpoint was removed while another endpoint keeps
\* its sessions.
C29_Witness ==
    /\ regLast.op = "remove"
    /\ regLast.known
    /\ ~MapHas(endpointCounts, regLast.info.endpointName)
    /\ Len(endpointCounts) = 1


\* The step on which a control-plane procedure of the given kinds returns
\* success after its repository call has stored a change.
ReturnsStored(kinds) ==
    /\ cpOp.pc # "done"
    /\ cpOp'.pc = "done"
    /\ cpOp'.success
    /\ cpOp'.persisted
    /\ cpOp'.kind \in kinds

\* C21: when a namespace update or delete, an updateServerStatus, an
\* updateToolStatus or an updateToolOverrides has stored its change and
\* returns success, the tool-override cache holds no map for that namespace.
C21_OverrideCacheCleared ==
    [][ReturnsStored({"update", "delete", "updateServerStatus", "updateToolStatus",
                      "updateToolOverrides"}) => ~overrideCache'[cpOp'.ns]]_vars

\* C22: a refreshTools that has upserted tools and returns success has triggered
\* invalidateIdleServer and invalidateOpenApiSessions and has left no map of the
\* namespace in the tool-override cache; a refreshTools that stored nothing has
\* triggered nothing and has left the cache as it was when the tools were parsed.
C22_RefreshToolsInvalidates ==
    [][/\ ReturnsStored({"refreshTools"}) =>
              /\ {"invalidateIdleServer", "invalidateOpenApiSessions"} \subseteq cpOp'.triggered
              /\ ~overrideCache'[cpOp'.ns]
       /\ (cpOp.pc # "done" /\ cpOp'.pc = "done" /\ cpOp'.kind = "refreshTools"
              /\ ~cpOp'.persisted) =>
              /\ cpOp'.triggered = {}
              /\ UNCHANGED <<overrideCache, bgTasks>>]_vars

\* C23: every namespace update, updateServerStatus, updateToolStatus,
\* updateToolOverrides and refreshTools that has stored its change and returns
\* success has triggered invalidateIdleServer for the namespace.
C23_IdleServerInvalidated ==
    [][ReturnsStored({"update", "updateServerStatus", "updateToolStatus",
                      "updateToolOverrides", "refreshTools"}) =>
           /\ "invalidateIdleServer" \in cpOp'.triggered
           /\ [kind |-> "invalidateIdleServer", ns |-> cpOp'.ns] \in bgTasks']_vars


\* An indexing launched by list_tools has ended and left a listed tool without
\* an entry: an embedding of it failed.
IndexingFailedFor(r) ==
    /\ req[r].enabled
    /\ inflight = {}
    /\ pendingIndexing[CtxNamespace] = 0
    /\ cacheCur[CtxNamespace] # 0
    /\ \E i \in 1..Len(req[r].resp) :
           ~MapHas(cacheObj[cacheCur[CtxNamespace]], req[r].resp[i].name)

\* C30: a control-plane procedure during or after which a pool call it made has
\* failed has returned success, and a list_tools that has answered has answered
\* with its tool list (all tools when Smart Discovery is off, else the exposed
\* ones), whatever became of the indexing it launched.
C30_BackgroundFailureKeepsOutcome ==
    /\ (cpOp.pc = "done" /\ cpOp.failed # {}) =>
           /\ cpOp.kind \in PoolCallers
           /\ cpOp.success
    /\ \A r \in Requests :
           (req[r].kind = "list" /\ req[r].pc = "done") =>
               /\ ~req[r].out.isError
               /\ req[r].out.names =
                      IF req[r].enabled
                      THEN ToolNames(FinalTools(req[r].resp, req[r].pinnedRead,
                                                req[r].discovered))
                      ELSE ToolNames(req[r].resp)

C30_Witness ==
    /\ cpOp.pc = "done"
    /\ cpOp.kind = "delete"
    /\ cpOp.failed = {"cleanupIdleServer"}
    /\ cpOp.success
    /\ req["r1"].kind = "list"
    /\ req["r1"].pc = "done"
    /\ req["r1"].out.kind = "exposed"
    /\ IndexingFailedFor("r1")


\* C25: while the downstream session is not connected, the session manager
\* holds no exposure state for its id, so list_tools of a later session with
\* the same id starts from an empty discovered set.
C25_DisconnectRemovesExposure ==
    CtxSession \notin DOMAIN connections =>
        /\ CtxSession \notin DOMAIN sessions
        /\ getDiscoveredToolNames(CtxSession, CtxNamespace) = {}


\* list_tools of the session takes the status from the cache while no
\* namespace update is in progress: the request began after the latest update
\* returned.
ListServedFromCache ==
    /\ upd.pc = "idle"
    /\ req["r1"].kind = "list"
    /\ req["r1"].pc = "handler"
    /\ req'["r1"].pc \in {"pinned_db", "done"}

\* C24: a list_tools that begins after a namespace update has returned is
\* served with the enabled flag the store holds, also when a status lookup that
\* read the store before the update filled the status cache after the update
\* cleared it.
C24_NextListSeesUpdatedFlag ==
    [][ListServedFromCache => req'["r1"].enabled = nsEnabled]_vars


C32_DeleteClearsIndex ==
    [][ReturnsStored({"delete"}) => cacheCur'[cpOp'.ns] = 0]_vars


\* C35: every name in the answer of a list_tools on an enabled namespace is a
\* synthetic name or the name of a tool the next handler returned for that
\* request, whatever names are pinned or were discovered.
C35_ListedToolsComeFromHandler ==
    \A r \in Requests :
        (req[r].kind = "list" /\ req[r].pc = "done" /\ req[r].enabled) =>
            \A i \in 1..Len(req[r].out.names) :
                \/ req[r].out.names[i] \in SyntheticNames
                \/ req[r].out.names[i] \in SeqRange(ToolNames(req[r].resp))

\* A pinned name and a discovered name are missing from the handler's list.
C35_Witness ==
    /\ req["r1"].kind = "list"
    /\ req["r1"].pc = "done"
    /\ req["r1"].enabled
    /\ \E n \in req["r1"].pinnedRead : n \notin SeqRange(ToolNames(req["r1"].resp))
    /\ \E n \in req["r1"].discovered : n \notin SeqRange(ToolNames(req["r1"].resp))
    /\ Len(req["r1"].out.names) > Len(SyntheticTools)


\* The step on which a find of an enabled namespace gets its answer.
FindAnswered(r) ==
    /\ req[r].pc # "done"
    /\ req'[r].pc = "done"
    /\ req'[r].kind = "find"
    /\ req'[r].enabled

C37_IndexToolsNeverDeletes ==
    [][\A n \in NamespaceUuids :
           (cacheCur[n] # 0 /\ cacheCur'[n] # 0) =>
               \A k \in MapKeys(cacheObj[cacheCur[n]]) :
                   MapHas(cacheObj'[cacheCur'[n]], k)]_vars

\* An indexTools call with the short list has ended and the index still holds
\* a tool that list does not contain.
C37_Witness ==
    \E c \in IxCallers :
        /\ ixCalls[c].pc = "done"
        /\ ixCalls[c].tools = IxListOther
        /\ MapHas(ixCalls[c].after, GhostTool)
        /\ MapHas(NamespaceMap(CtxNamespace), AlphaRead)

\* A call that found an operation pending, and the call that started it.
Joined(c, owner) ==
    /\ ixCalls[c].pc = "done"
    /\ ~ixCalls[c].own
    /\ ixCalls[owner].pc = "done"
    /\ ixCalls[owner].own
    /\ ixCalls[owner].op = ixCalls[c].op

\* C38: an indexTools call that finds an operation pending requests no
\* embedding, and when the operation has ended the tools of its list that the
\* pending operation's list does not contain and the index did not hold are
\* not in the index.
C38_JoiningCallIsIgnored ==
    \A c \in IxCallers, owner \in IxCallers :
        Joined(c, owner) =>
            /\ ixCalls[c].embedded = {}
            /\ \A i \in 1..Len(ixCalls[c].tools) :
                   LET name == ixCalls[c].tools[i].name
                   IN  (name \notin SeqNames(ixCalls[owner].tools)
                            /\ ~MapHas(ixCalls[c].before, name)) =>
                           ~MapHas(ixCalls[c].after, name)

\* The long list joined the operation of the short list.
C38_Witness ==
    /\ Joined("i2", "i1")
    /\ ixCalls["i1"].tools = IxListOther
    /\ ixCalls["i2"].tools = IxListLong
    /\ ~MapHas(NamespaceMap(CtxNamespace), BetaWrite)

\* C39: once the index of the namespace has been cleared, it holds no tool
\* that was passed to indexTools only before the clear.
C39_NoStaleToolAfterClear ==
    \A name \in stale \ issued : ~MapHas(NamespaceMap(CtxNamespace), name)


\* list_tools on the enabled namespace has just launched indexTools with list.
Launched(list) ==
    /\ req["r1"].kind = "list"
    /\ req["r1"].pc = "pinned_db"
    /\ req["r1"].resp = list

\* The index of the namespace holds the current entry of every tool of list.
Indexed(list) ==
    \A i \in 1..Len(list) : ~NeedsEmbedding(NamespaceMap(CtxNamespace), list[i])

\* Every tool of list is indexed or is a tool the pending operation of the
\* namespace is working on or will come to.
Covered(list) ==
    \A i \in 1..Len(list) :
        \/ ~NeedsEmbedding(NamespaceMap(CtxNamespace), list[i])
        \/ \E task \in inflight :
               /\ task.tool = list[i]
               /\ task.ns = CtxNamespace
               /\ task.ref = cacheCur[CtxNamespace]
        \/ list[i] \in SeqRange(indexRest[CtxNamespace])

\* C34 as stated: after list_tools has launched indexTools with its K tools,
\* if no clear occurs, the index comes to hold all K tools with no operation
\* pending.
C34_Original ==
    \A list \in {IxListOther, IxListLong} :
        (Launched(list) /\ cacheClears = 0) ~>
            \/ Indexed(list) /\ pendingIndexing[CtxNamespace] = 0
            \/ cacheClears > 0

\* C34: after list_tools has launched indexTools with its K tools, if the
\* pending operation of the namespace covers these tools and no clear occurs,
\* the index comes to hold all K tools with no operation pending; and a pending
\* operation always comes to its end, also when the index is cleared under it.
C34_IndexingCompletes ==
    /\ \A list \in {IxListOther, IxListLong} :
           (Launched(list) /\ Covered(list) /\ cacheClears = 0) ~>
               \/ Indexed(list) /\ pendingIndexing[CtxNamespace] = 0
               \/ cacheClears > 0
    /\ (pendingIndexing[CtxNamespace] # 0) ~> (pendingIndexing[CtxNamespace] = 0)

\* The long list was listed and all its tools are indexed.
C34_Witness ==
    /\ req["r1"].kind = "list"
    /\ req["r1"].pc = "done"
    /\ req["r1"].resp = IxListLong
    /\ cacheClears = 0
    /\ Indexed(IxListLong)
    /\ pendingIndexing[CtxNamespace] = 0


\* What holds in every state of an Ask-Agent run: a run that ended in the
\* error block has left the exposed set as it found it; a run that ended
\* without error has the results of both LLM calls; tools are executed only
\* after the plan call was issued, and the report call is issued only after the
\* last selected call is recorded.
AskOrder ==
    /\ (ask.pc = "done" /\ ask.result.kind = "error") =>
           getDiscoveredToolNames(CtxSession, CtxNamespace) = ask.exposedBefore
    /\ (ask.pc = "done" /\ ask.result.kind = "ok") =>
           (ask.plan # <<>> /\ ask.report # <<>> /\ llmCalls = 2)
    /\ (ask.pc # "idle" /\ execLog # <<>>) => (llmCalls >= 1 /\ ask.plan # <<>>)
    /\ (ask.pc # "idle" /\ llmCalls = 2) =>
           Len(ask.toolCallsExecuted) = Len(ask.requestedToolCalls)

\* C40: an Ask-Agent run whose plan or report call throws ends in the error
\* block with the exposed set unchanged, also after tools were executed; in a
\* run without failure the plan call precedes every execution, no tool is
\* executed once the report call is issued, and the exposed set is written only
\* on the step that takes the report's answer.
C40_AskFailureKeepsExposedSet ==
    /\ []AskOrder
    /\ [][/\ (llmCalls = 2 /\ ask.pc # "idle") => execLog' = execLog
          /\ sessions' # sessions =>
                 (ask.pc = "report" /\ ask'.pc = "done" /\ ask'.result.kind = "ok")]_vars

\* The report call threw after a tool was executed, in a session that had an
\* exposed set and a plan that proposed tools to expose.
C40_Witness ==
    /\ ask.pc = "done"
    /\ ask.result.kind = "error"
    /\ llmCalls = 2
    /\ execLog # <<>>
    /\ ask.exposedBefore # {}
    /\ ask.plan[1].exposeTools # <<>>


\* The loads that are in flight.
PendingLoads == {p \in DOMAIN loads : loads[p] = "pending"}

\* C33: at most one model load is in flight at any time, a caller that arrives
\* while a load is in flight starts no load and awaits that load's promise, and
\* a load that succeeded is the last load ever started.
C33_OneLoadInFlight ==
    /\ [](/\ Cardinality(PendingLoads) <= 1
          /\ \A p \in DOMAIN loads : loads[p] = "resolved" => p = Len(loads))
    /\ [][\A c \in EpCallers :
              (gen[c].pc = "idle" /\ gen'[c].pc # "idle" /\ PendingLoads # {}) =>
                  (loads' = loads /\ gen'[c].promise \in PendingLoads)]_vars
    /\ [][(\E p \in DOMAIN loads : loads[p] = "resolved") => Len(loads') = Len(loads)]_vars

\* A first load failed; two callers awaited the second load, which succeeded,
\* and a third caller arrived after it and got the stored extractor.
C33_Witness ==
    /\ Len(loads) = 2
    /\ loads[1] = "rejected"
    /\ loads[2] = "resolved"
    /\ gen["g1"] = [pc |-> "infer", promise |-> 2]
    /\ gen["g2"] = [pc |-> "infer", promise |-> 2]
    /\ gen["g3"] = [pc |-> "infer", promise |-> 0]


\* The entries of the observed payload that the claim says are never persisted.
NotToPersist ==
    {name \in rf.payload : ParseShared(name) = <<>> \/ OriginalNameOf(name) # name}

\* C31: two successful refreshTools calls with the same payload leave the same
\* Tool keys and the same ACTIVE memberships as the first call alone, and no
\* call persists an entry whose full name is an override name or has no
\* separator.
C31_RefreshTwiceEqualsOnce ==
    /\ (rf.runs = 2 /\ rf.success = <<TRUE, TRUE>>) => RowSets = rf.once
    /\ rf.persisted \cap NotToPersist = {}

\* The same statement for the pairs of calls in which every override lookup
\* answered.
RefreshHoldsWhenLookupsAnswer ==
    ~rf.thrown => C31_RefreshTwiceEqualsOnce

====
